---- MODULE Spec2Model ----
(***************************************************************************)
(* Model of the Telegram <-> Bitrix24 bot (src/bot/bot2.py) and of the     *)
(* credential backend (src/backend).                                       *)
(*                                                                         *)
(* Texts are sequences of one-character strings, so that startswith,       *)
(* strip, replace, int(), float(), strptime and the webhook parser are     *)
(* computed as the code computes them.  The Russian command texts of the   *)
(* source are written in English (the module is ASCII); the translation    *)
(* keeps the property of the source that no command prefix is a prefix of  *)
(* another one.                                                            *)
(***************************************************************************)
EXTENDS Integers, Sequences, FiniteSets, TLC

VARIABLES
    fsmState,   \* MemoryStorage: user -> FSM state name ("None" = no state)
    fsmData,    \* MemoryStorage: user -> collected fields (key -> value)
    stored,     \* credential backend: user -> [exists, url] (url <<>> = none)
    keyboards,  \* user -> kinds of inline keyboards the bot has sent so far
    runs,       \* the most recent handler runs (at most `window` of them)
    window,     \* how many handler runs `runs` keeps (fixed by Init)
    tasks,      \* polling: update id -> the handler task processing it
    inbox,      \* polling: number of updates received so far
    clients,    \* the BitrixAPIClient objects created, each with its session
    active,     \* handler activations followed line by line: position, client
    apiCall,    \* a BitrixAPIClient method call: the method and its arguments
    apiResult   \* what that call sent to the CRM and what it returned

vars == <<fsmState, fsmData, stored, keyboards, runs, window, tasks, inbox,
          clients, active, apiCall, apiResult>>

\* the variables of the router and its handlers
botVars == <<fsmState, fsmData, stored, keyboards, runs, window, tasks, inbox>>

\* the variables of a single client call
apiVars == <<apiCall, apiResult>>

-----------------------------------------------------------------------------
(* Python string operations on character sequences                         *)

Digits == <<"0","1","2","3","4","5","6","7","8","9">>

IsDigit(c) == \E i \in 1..10 : Digits[i] = c

DigitVal(c) == (CHOOSE i \in 1..10 : Digits[i] = c) - 1

AllDigits(s) == Len(s) > 0 /\ \A i \in 1..Len(s) : IsDigit(s[i])

StartsWith(s, p) == Len(s) >= Len(p) /\ SubSeq(s, 1, Len(p)) = p

\* `sub in s`
Contains(s, sub) ==
    \E i \in 1..(Len(s) - Len(sub) + 1) : SubSeq(s, i, i + Len(sub) - 1) = sub

RECURSIVE LStripCh(_, _)
LStripCh(s, c) == IF Len(s) > 0 /\ s[1] = c THEN LStripCh(Tail(s), c) ELSE s

RECURSIVE RStripCh(_, _)
RStripCh(s, c) ==
    IF Len(s) > 0 /\ s[Len(s)] = c THEN RStripCh(SubSeq(s, 1, Len(s) - 1), c) ELSE s

\* s.strip(): whitespace is the blank (texts hold no tab or newline here)
Strip(s) == RStripCh(LStripCh(s, " "), " ")

\* s.strip('/') and s.rstrip('/')
StripSlash(s) == RStripCh(LStripCh(s, "/"), "/")

\* s.replace(old, new): every non-overlapping occurrence, left to right
RECURSIVE Replace(_, _, _)
Replace(s, old, new) ==
    IF Len(s) = 0 THEN s
    ELSE IF StartsWith(s, old) THEN new \o Replace(SubSeq(s, Len(old) + 1, Len(s)), old, new)
    ELSE <<s[1]>> \o Replace(Tail(s), old, new)

\* s.split(c): the list of the pieces between the separators
RECURSIVE Split(_, _)
Split(s, c) ==
    IF \A i \in 1..Len(s) : s[i] # c THEN <<s>>
    ELSE LET k == CHOOSE i \in 1..Len(s) : s[i] = c /\ \A j \in 1..(i - 1) : s[j] # c
         IN  <<SubSeq(s, 1, k - 1)>> \o Split(SubSeq(s, k + 1, Len(s)), c)

RECURSIVE DigitsVal(_)
DigitsVal(s) ==
    IF Len(s) = 0 THEN 0 ELSE DigitsVal(SubSeq(s, 1, Len(s) - 1)) * 10 + DigitVal(s[Len(s)])

Unsigned(s) == IF Len(s) > 0 /\ s[1] \in {"+", "-"} THEN Tail(s) ELSE s

Sign(s) == IF Len(s) > 0 /\ s[1] = "-" THEN -1 ELSE 1

\* int(s): an optional sign and decimal digits, else ValueError
IntOk(s) == AllDigits(Unsigned(Strip(s)))

IntVal(s) == Sign(Strip(s)) * DigitsVal(Unsigned(Strip(s)))

\* float(s): an optional sign, digits with at most one point and at least one
\* digit (exponents, inf and nan are not among the inputs), else ValueError
FloatOk(s) ==
    LET u == Unsigned(Strip(s))
        parts == Split(u, ".")
    IN  /\ Len(parts) \in {1, 2}
        /\ \A i \in 1..Len(parts) : parts[i] = <<>> \/ AllDigits(parts[i])
        /\ \E i \in 1..Len(parts) : parts[i] # <<>>

RECURSIVE RStripZeros(_)
RStripZeros(s) ==
    IF Len(s) > 0 /\ s[Len(s)] = "0" THEN RStripZeros(SubSeq(s, 1, Len(s) - 1)) ELSE s

\* the float as <<mantissa, number of decimals>>, e.g. "12.50" -> <<125, 1>>
FloatVal(s) ==
    LET u == Unsigned(Strip(s))
        parts == Split(u, ".")
        frac == IF Len(parts) = 2 THEN RStripZeros(parts[2]) ELSE <<>>
    IN  <<Sign(Strip(s)) * DigitsVal(parts[1] \o frac), Len(frac)>>

DaysInMonth(y, m) ==
    IF m \in {4, 6, 9, 11} THEN 30
    ELSE IF m # 2 THEN 31
    ELSE IF (y % 4 = 0 /\ y % 100 # 0) \/ y % 400 = 0 THEN 29 ELSE 28

\* datetime.strptime(s, '%Y-%m-%d') succeeds: four digits, a month of one or
\* two digits in 1..12, a day of one or two digits that the month has
StrptimeOk(s) ==
    LET parts == Split(s, "-")
    IN  /\ Len(parts) = 3
        /\ AllDigits(parts[1]) /\ Len(parts[1]) = 4
        /\ AllDigits(parts[2]) /\ Len(parts[2]) \in {1, 2}
        /\ AllDigits(parts[3]) /\ Len(parts[3]) \in {1, 2}
        /\ DigitsVal(parts[1]) >= 1
        /\ DigitsVal(parts[2]) \in 1..12
        /\ DigitsVal(parts[3]) >= 1
        /\ DigitsVal(parts[3]) <= DaysInMonth(DigitsVal(parts[1]), DigitsVal(parts[2]))

-----------------------------------------------------------------------------
(* WebhookParser                                                           *)

SchemeSep == <<":","/","/">>

\* urllib.parse.urlparse(url) for the URL shapes of the inputs (no query, no
\* fragment, no scheme without "//"): [scheme, netloc, path]
UrlParse(url) ==
    IF Contains(url, SchemeSep)
    THEN LET k == CHOOSE i \in 1..Len(url) :
                    /\ SubSeq(url, i, i + 2) = SchemeSep
                    /\ \A j \in 1..(i - 1) : SubSeq(url, j, j + 2) # SchemeSep
             rest == SubSeq(url, k + 3, Len(url))
             cut == IF \E i \in 1..Len(rest) : rest[i] = "/"
                    THEN CHOOSE i \in 1..Len(rest) :
                             rest[i] = "/" /\ \A j \in 1..(i - 1) : rest[j] # "/"
                    ELSE Len(rest) + 1
         IN  [scheme |-> SubSeq(url, 1, k - 1),
              netloc |-> SubSeq(rest, 1, cut - 1),
              path |-> SubSeq(rest, cut, Len(rest))]
    ELSE [scheme |-> <<>>, netloc |-> <<>>, path |-> url]

\* parsed_url.path.strip('/').split('/')
PathParts(url) == Split(StripSlash(UrlParse(url).path), "/")

\* a parser that takes the last path segment as the token
parse_webhook_url_last(webhook_url) ==
    LET url == RStripCh(Strip(webhook_url), "/")
        parsed == UrlParse(url)
        path_parts == PathParts(url)
    IN  IF Len(path_parts) < 3 \/ path_parts[1] # <<"r","e","s","t">>
        THEN [ok |-> FALSE, full_webhook_url |-> <<>>, portal_url |-> <<>>,
              user_id |-> <<>>, webhook_token |-> <<>>]
        ELSE [ok |-> TRUE,
              full_webhook_url |-> url,
              portal_url |-> parsed.scheme \o SchemeSep \o parsed.netloc,
              user_id |-> path_parts[2],
              webhook_token |-> path_parts[Len(path_parts)]]

\* WebhookParser.parse_webhook_url: ok = FALSE models the ValueError
parse_webhook_url(webhook_url) ==
    LET url == RStripCh(Strip(webhook_url), "/")
        parsed == UrlParse(url)
        path_parts == PathParts(url)
    IN  IF Len(path_parts) < 3 \/ path_parts[1] # <<"r","e","s","t">>
        THEN [ok |-> FALSE, full_webhook_url |-> <<>>, portal_url |-> <<>>,
              user_id |-> <<>>, webhook_token |-> <<>>]
        ELSE [ok |-> TRUE,
              full_webhook_url |-> url,
              portal_url |-> parsed.scheme \o SchemeSep \o parsed.netloc,
              user_id |-> path_parts[2],
              webhook_token |-> path_parts[3]]

\* WebhookParser.validate_webhook_url
validate_webhook_url(webhook_url) ==
    LET result == parse_webhook_url(webhook_url)
    IN  /\ result.ok
        /\ result.full_webhook_url # <<>>
        /\ result.portal_url # <<>>
        /\ result.user_id # <<>>
        /\ result.webhook_token # <<>>
        /\ Contains(result.portal_url, <<".","b","i","t","r","i","x","2","4",".">>)

-----------------------------------------------------------------------------
(* Values held in the FSM data and sent in CRM fields                      *)

StrV(s) == [t |-> "str", s |-> s, n |-> 0, e |-> 0]

\* a string that the code itself wrote (callback data, a literal)
AtomV(a) == [t |-> "atom", s |-> <<a>>, n |-> 0, e |-> 0]

IntV(n) == [t |-> "int", s |-> <<>>, n |-> n, e |-> 0]

\* float(text): the number as mantissa and number of decimals
FloatV(s) == [t |-> "float", s |-> <<>>, n |-> FloatVal(s)[1], e |-> FloatVal(s)[2]]

\* [{'VALUE': s, 'VALUE_TYPE': 'WORK'}]
MultiV(s) == [t |-> "multi", s |-> s, n |-> 0, e |-> 0]

NoneVal == [t |-> "none", s |-> <<>>, n |-> 0, e |-> 0]

\* Python truthiness of a value
Truthy(v) ==
    CASE v.t = "none" -> FALSE
      [] v.t \in {"str", "atom"} -> v.s # <<>>
      [] v.t \in {"int", "float"} -> v.n # 0
      [] OTHER -> TRUE

\* dict.get(k, default)
Get(d, k, default) == IF k \in DOMAIN d THEN d[k] ELSE default

\* FSMContext.update_data(k=v) / d[k] = v
Put(d, k, v) == [x \in (DOMAIN d) \cup {k} |-> IF x = k THEN v ELSE d[x]]

\* FSMContext.clear(): no state, no data
NoState == "None"

NoData == <<>>

-----------------------------------------------------------------------------
(* The router: handlers in registration order with their filters           *)

MessageHandlers == <<
    [name |-> "cmd_start", kind |-> "command", state |-> "", text |-> <<"/","s","t","a","r","t">>],
    [name |-> "cmd_help", kind |-> "command", state |-> "", text |-> <<"/","h","e","l","p">>],
    [name |-> "cmd_auth", kind |-> "command", state |-> "", text |-> <<"/","a","u","t","h">>],
    [name |-> "process_webhook", kind |-> "state", state |-> "AuthStates:waiting_webhook", text |-> <<>>],
    [name |-> "cmd_logout", kind |-> "command", state |-> "", text |-> <<"/","l","o","g","o","u","t">>],
    [name |-> "cmd_status", kind |-> "command", state |-> "", text |-> <<"/","s","t","a","t","u","s">>],
    [name |-> "cmd_my_deals", kind |-> "prefix", state |-> "", text |-> <<"M","y"," ","d","e","a","l","s">>],
    [name |-> "cmd_deal_detail", kind |-> "prefix", state |-> "", text |-> <<"D","e","a","l"," ">>],
    [name |-> "cmd_my_tasks", kind |-> "prefix", state |-> "", text |-> <<"M","y"," ","t","a","s","k","s">>],
    [name |-> "cmd_task_detail", kind |-> "prefix", state |-> "", text |-> <<"T","a","s","k"," ">>],
    [name |-> "cmd_search_contact", kind |-> "prefix", state |-> "", text |-> <<"F","i","n","d"," ","c","o","n","t","a","c","t"," ">>],
    [name |-> "cmd_search_company", kind |-> "prefix", state |-> "", text |-> <<"F","i","n","d"," ","c","o","m","p","a","n","y"," ">>],
    [name |-> "cmd_my_leads", kind |-> "prefix", state |-> "", text |-> <<"M","y"," ","l","e","a","d","s">>],
    [name |-> "cmd_task_statistics", kind |-> "prefix", state |-> "", text |-> <<"S","t","a","t","i","s","t","i","c","s"," ","o","n"," ","t","a","s","k","s">>],
    [name |-> "cmd_create_lead", kind |-> "prefix", state |-> "", text |-> <<"C","r","e","a","t","e"," ","l","e","a","d">>],
    [name |-> "process_lead_name", kind |-> "state", state |-> "LeadCreationStates:waiting_name", text |-> <<>>],
    [name |-> "process_lead_phone", kind |-> "state", state |-> "LeadCreationStates:waiting_phone", text |-> <<>>],
    [name |-> "process_lead_source", kind |-> "state", state |-> "LeadCreationStates:waiting_source", text |-> <<>>],
    [name |-> "process_lead_title", kind |-> "state", state |-> "LeadCreationStates:waiting_title", text |-> <<>>],
    [name |-> "cmd_create_deal", kind |-> "prefix", state |-> "", text |-> <<"C","r","e","a","t","e"," ","d","e","a","l">>],
    [name |-> "process_deal_title", kind |-> "state", state |-> "DealCreationStates:waiting_title", text |-> <<>>],
    [name |-> "process_deal_amount", kind |-> "state", state |-> "DealCreationStates:waiting_amount", text |-> <<>>],
    [name |-> "process_deal_contact", kind |-> "state", state |-> "DealCreationStates:waiting_contact", text |-> <<>>],
    [name |-> "cmd_create_task", kind |-> "prefix", state |-> "", text |-> <<"C","r","e","a","t","e"," ","t","a","s","k">>],
    [name |-> "process_task_title", kind |-> "state", state |-> "TaskCreationStates:waiting_title", text |-> <<>>],
    [name |-> "process_task_description", kind |-> "state", state |-> "TaskCreationStates:waiting_description", text |-> <<>>],
    [name |-> "process_task_deadline", kind |-> "state", state |-> "TaskCreationStates:waiting_deadline", text |-> <<>>],
    [name |-> "cmd_create_contact", kind |-> "prefix", state |-> "", text |-> <<"C","r","e","a","t","e"," ","c","o","n","t","a","c","t">>],
    [name |-> "process_contact_first_name", kind |-> "state", state |-> "ContactCreationStates:waiting_first_name", text |-> <<>>],
    [name |-> "process_contact_last_name", kind |-> "state", state |-> "ContactCreationStates:waiting_last_name", text |-> <<>>],
    [name |-> "process_contact_phone", kind |-> "state", state |-> "ContactCreationStates:waiting_phone", text |-> <<>>],
    [name |-> "process_contact_email", kind |-> "state", state |-> "ContactCreationStates:waiting_email", text |-> <<>>],
    [name |-> "cmd_edit_deal", kind |-> "prefix", state |-> "", text |-> <<"E","d","i","t"," ","d","e","a","l"," ">>],
    [name |-> "process_deal_value", kind |-> "state", state |-> "DealEditStates:waiting_value", text |-> <<>>],
    [name |-> "cmd_edit_task", kind |-> "prefix", state |-> "", text |-> <<"E","d","i","t"," ","t","a","s","k"," ">>],
    [name |-> "process_task_value", kind |-> "state", state |-> "TaskEditStates:waiting_value", text |-> <<>>],
    [name |-> "cmd_edit_lead", kind |-> "prefix", state |-> "", text |-> <<"E","d","i","t"," ","l","e","a","d"," ">>],
    [name |-> "process_lead_value", kind |-> "state", state |-> "LeadEditStates:waiting_value", text |-> <<>>],
    [name |-> "cmd_add_comment", kind |-> "prefix", state |-> "", text |-> <<"A","d","d"," ","c","o","m","m","e","n","t"," ","t","o"," ">>],
    [name |-> "process_comment_text", kind |-> "state", state |-> "CommentStates:waiting_comment", text |-> <<>>],
    [name |-> "cmd_reassign_task", kind |-> "prefix", state |-> "", text |-> <<"R","e","a","s","s","i","g","n"," ","t","a","s","k"," ">>],
    [name |-> "process_task_responsible", kind |-> "state", state |-> "TaskReassignStates:waiting_responsible", text |-> <<>>],
    [name |-> "cmd_change_lead_status", kind |-> "prefix", state |-> "", text |-> <<"C","h","a","n","g","e"," ","l","e","a","d"," ","s","t","a","t","u","s"," ">>],
    [name |-> "process_lead_status_input", kind |-> "state", state |-> "LeadStatusStates:waiting_status", text |-> <<>>],
    [name |-> "cmd_deal_report", kind |-> "prefix", state |-> "", text |-> <<"R","e","p","o","r","t"," ","o","n"," ","d","e","a","l","s">>],
    [name |-> "cmd_calculate_deals_sum", kind |-> "prefix", state |-> "", text |-> <<"C","a","l","c","u","l","a","t","e"," ","d","e","a","l","s"," ","s","u","m">>],
    [name |-> "cmd_quick_deal", kind |-> "prefix", state |-> "", text |-> <<"Q","u","i","c","k"," ","d","e","a","l">>],
    [name |-> "process_quick_deal_title", kind |-> "state", state |-> "QuickDealStates:waiting_title", text |-> <<>>],
    [name |-> "process_quick_deal_amount", kind |-> "state", state |-> "QuickDealStates:waiting_amount", text |-> <<>>],
    [name |-> "cmd_attach_file", kind |-> "prefix", state |-> "", text |-> <<"A","t","t","a","c","h"," ","f","i","l","e"," ","t","o"," ">>] >>

CallbackHandlers == <<
    [name |-> "process_deal_stage", state |-> "", prefix |-> "stage_"],
    [name |-> "process_task_priority", state |-> "", prefix |-> "priority_"],
    [name |-> "process_deal_field", state |-> "DealEditStates:waiting_field", prefix |-> "field_"],
    [name |-> "process_task_field", state |-> "TaskEditStates:waiting_field", prefix |-> "taskfield_"],
    [name |-> "process_lead_field", state |-> "LeadEditStates:waiting_field", prefix |-> "leadfield_"],
    [name |-> "process_lead_status_selection", state |-> "", prefix |-> "leadstatus_"] >>

\* the StatesGroup classes: the states of each flow
StatesGroups ==
    [AuthStates |-> {"AuthStates:waiting_webhook"},
     LeadCreationStates |->
        {"LeadCreationStates:waiting_name", "LeadCreationStates:waiting_phone",
         "LeadCreationStates:waiting_source", "LeadCreationStates:waiting_title"},
     DealCreationStates |->
        {"DealCreationStates:waiting_title", "DealCreationStates:waiting_stage",
         "DealCreationStates:waiting_amount", "DealCreationStates:waiting_contact"},
     TaskCreationStates |->
        {"TaskCreationStates:waiting_title", "TaskCreationStates:waiting_description",
         "TaskCreationStates:waiting_responsible", "TaskCreationStates:waiting_deadline",
         "TaskCreationStates:waiting_priority"},
     ContactCreationStates |->
        {"ContactCreationStates:waiting_first_name", "ContactCreationStates:waiting_last_name",
         "ContactCreationStates:waiting_phone", "ContactCreationStates:waiting_email"},
     DealEditStates |-> {"DealEditStates:waiting_field", "DealEditStates:waiting_value"},
     TaskEditStates |-> {"TaskEditStates:waiting_field", "TaskEditStates:waiting_value"},
     LeadEditStates |-> {"LeadEditStates:waiting_field", "LeadEditStates:waiting_value"},
     QuickDealStates |-> {"QuickDealStates:waiting_title", "QuickDealStates:waiting_amount"},
     CommentStates |->
        {"CommentStates:waiting_entity_type", "CommentStates:waiting_entity_id",
         "CommentStates:waiting_comment"},
     TaskReassignStates |->
        {"TaskReassignStates:waiting_task_id", "TaskReassignStates:waiting_responsible"},
     LeadStatusStates |->
        {"LeadStatusStates:waiting_lead_id", "LeadStatusStates:waiting_status"}]

\* the handler that starts each flow and the state it enters
FlowTrigger ==
    [AuthStates |-> [name |-> "cmd_auth", first |-> "AuthStates:waiting_webhook"],
     LeadCreationStates |->
        [name |-> "cmd_create_lead", first |-> "LeadCreationStates:waiting_name"],
     DealCreationStates |->
        [name |-> "cmd_create_deal", first |-> "DealCreationStates:waiting_title"],
     TaskCreationStates |->
        [name |-> "cmd_create_task", first |-> "TaskCreationStates:waiting_title"],
     ContactCreationStates |->
        [name |-> "cmd_create_contact", first |-> "ContactCreationStates:waiting_first_name"],
     DealEditStates |-> [name |-> "cmd_edit_deal", first |-> "DealEditStates:waiting_field"],
     TaskEditStates |-> [name |-> "cmd_edit_task", first |-> "TaskEditStates:waiting_field"],
     LeadEditStates |-> [name |-> "cmd_edit_lead", first |-> "LeadEditStates:waiting_field"],
     QuickDealStates |-> [name |-> "cmd_quick_deal", first |-> "QuickDealStates:waiting_title"],
     CommentStates |-> [name |-> "cmd_add_comment", first |-> "CommentStates:waiting_comment"],
     TaskReassignStates |->
        [name |-> "cmd_reassign_task", first |-> "TaskReassignStates:waiting_responsible"],
     LeadStatusStates |->
        [name |-> "cmd_change_lead_status", first |-> "LeadStatusStates:waiting_status"]]

\* the registration of a message handler
HandlerNamed(n) ==
    MessageHandlers[CHOOSE i \in 1..Len(MessageHandlers) : MessageHandlers[i].name = n]

\* Command("x"): the text is the command, alone or followed by arguments
IsCommand(text, c) == text = c \/ StartsWith(text, c \o <<" ">>)

Matches(h, st, text) ==
    CASE h.kind = "command" -> IsCommand(text, h.text)
      [] h.kind = "prefix" -> StartsWith(text, h.text)
      [] h.kind = "state" -> st = h.state

\* the handler a message is given to: the first registered one whose filter
\* passes ("unhandled" when none does)
Dispatch(st, text) ==
    IF \E i \in 1..Len(MessageHandlers) : Matches(MessageHandlers[i], st, text)
    THEN MessageHandlers[CHOOSE i \in 1..Len(MessageHandlers) :
            /\ Matches(MessageHandlers[i], st, text)
            /\ \A j \in 1..(i - 1) : ~Matches(MessageHandlers[j], st, text)].name
    ELSE "unhandled"

CbMatches(h, st, cb) == cb.prefix = h.prefix /\ (h.state = "" \/ h.state = st)

DispatchCallback(st, cb) ==
    IF \E i \in 1..Len(CallbackHandlers) : CbMatches(CallbackHandlers[i], st, cb)
    THEN CallbackHandlers[CHOOSE i \in 1..Len(CallbackHandlers) :
            /\ CbMatches(CallbackHandlers[i], st, cb)
            /\ \A j \in 1..(i - 1) : ~CbMatches(CallbackHandlers[j], st, cb)].name
    ELSE "unhandled"

\* the buttons of the inline keyboards the handlers build
Buttons(prefix) ==
    CASE prefix = "stage_" -> {"C1", "C2", "C3", "C4", "C5", "C6"}
      [] prefix = "priority_" -> {"1", "2", "3"}
      [] prefix = "field_" ->
            {"TITLE", "OPPORTUNITY", "STAGE_ID", "ASSIGNED_BY_ID", "PROBABILITY", "COMMENTS"}
      [] prefix = "taskfield_" ->
            {"TITLE", "DESCRIPTION", "PRIORITY", "DEADLINE", "RESPONSIBLE_ID", "COMMENTS",
             "STATUS"}
      [] prefix = "leadfield_" ->
            {"TITLE", "NAME", "LAST_NAME", "PHONE", "EMAIL", "STATUS_ID", "SOURCE_ID",
             "ASSIGNED_BY_ID", "COMMENTS"}
      [] prefix = "leadstatus_" -> {"NEW", "CONVERTED"}

-----------------------------------------------------------------------------
(* Handler runs                                                            *)

\* a storage that keeps one record for all users
StorageKeyShared(u) == "u1"

\* the FSM storage key of a user: MemoryStorage keeps one record per user
StorageKey(u) == u

\* what a handler run leaves behind: the user's FSM state and data, the
\* stored credential, the keyboards sent, the network operations and replies
Out(st, d, nets, replies) ==
    [st |-> st, d |-> d, nets |-> nets, replies |-> replies, sto |-> <<>>, kb |-> ""]

Finish(u, h, text, o) ==
    /\ fsmState' = [fsmState EXCEPT ![StorageKey(u)] = o.st]
    /\ fsmData' = [fsmData EXCEPT ![StorageKey(u)] = o.d]
    /\ stored' = IF o.sto = <<>> THEN stored ELSE [stored EXCEPT ![u] = o.sto[1]]
    /\ keyboards' = IF o.kb = "" THEN keyboards
                    ELSE [keyboards EXCEPT ![u] = @ \cup {o.kb}]
    /\ runs' = LET r == [user |-> u, handler |-> h, text |-> text,
                         from |-> fsmState[StorageKey(u)], nets |-> o.nets,
                         replies |-> o.replies]
                   all == Append(runs, r)
               IN  IF Len(all) > window THEN Tail(all) ELSE all
    /\ UNCHANGED <<window, tasks, inbox, clients, active, apiCall, apiResult>>

\* the handler's own view of the session
State(u) == fsmState[StorageKey(u)]

Data(u) == fsmData[StorageKey(u)]

\* the most recent handler run
LastRun == runs[Len(runs)]

\* the CRM requests a handler run issued
CrmCalls(r) == SelectSeq(r.nets, LAMBDA n : n.svc = "crm")

-----------------------------------------------------------------------------
(* BackendAPIClient and BitrixAPIClient                                    *)

Net(svc, method, id, fields, outcome) ==
    [svc |-> svc, method |-> method, id |-> id, fields |-> fields, outcome |-> outcome]

NoWebhook ==
    [ok |-> FALSE, full_webhook_url |-> <<>>, portal_url |-> <<>>, user_id |-> <<>>,
     webhook_token |-> <<>>]

\* BackendAPIClient.get_bitrix_webhook: the possible results, each with the
\* request it made.  The backend answers with the stored URL, with 404 when
\* there is none, or fails ("down"); any failure gives None.
get_bitrix_webhook(u) ==
    {[net |-> Net("store", "GET", <<>>, <<>>, "down"), data |-> NoWebhook]}
    \cup
    (IF stored[u].exists /\ stored[u].url # <<>> /\ parse_webhook_url(stored[u].url).ok
     THEN {[net |-> Net("store", "GET", <<>>, <<>>, "ok"),
            data |-> [parse_webhook_url(stored[u].url) EXCEPT
                          !.full_webhook_url = stored[u].url]]}
     ELSE {[net |-> Net("store", "GET", <<>>, <<>>, "404"), data |-> NoWebhook]})

\* check_bitrix_connected
check_bitrix_connected(webhook_data) ==
    webhook_data.ok /\ webhook_data.full_webhook_url # <<>>

\* the outcomes of BitrixAPIClient._make_request: a JSON result, an error
\* payload, a transport failure, a timeout
CrmOutcomes == {"ok", "api_error", "network", "timeout"}

\* the reply for the exception _make_request raises
ErrReply(outcome) ==
    CASE outcome = "api_error" -> "error: Bitrix24 API error"
      [] outcome = "network" -> "error: Network error"
      [] outcome = "timeout" -> "error: Request timeout"

\* a create method that always writes the webhook's user id
WithAssignedAlways(webhook_data, key, fields) ==
    IF webhook_data.user_id # <<>>
    THEN Put(fields, key, StrV(webhook_data.user_id))
    ELSE fields

\* create_lead / create_deal: ASSIGNED_BY_ID from the webhook unless supplied
WithAssigned(webhook_data, key, fields) ==
    IF webhook_data.user_id # <<>> /\ key \notin DOMAIN fields
    THEN Put(fields, key, StrV(webhook_data.user_id))
    ELSE fields

\* a CRM request that is sent a second time after a transport failure or a
\* timeout
CrmRunRetry(g, method, id, fields, okReply) ==
    IF ~g.data.ok
    THEN {[nets |-> <<g.net>>, replies |-> <<"error: TypeError">>, outcome |-> "none"]}
    ELSE {[nets |-> <<g.net, Net("crm", method, id, fields, o)>>,
           replies |-> <<IF o = "ok" THEN okReply ELSE ErrReply(o)>>,
           outcome |-> o] : o \in {"ok", "api_error"}}
         \cup
         {[nets |-> <<g.net, Net("crm", method, id, fields, o1),
                      Net("crm", method, id, fields, o2)>>,
           replies |-> <<IF o2 = "ok" THEN okReply ELSE ErrReply(o2)>>,
           outcome |-> o2] : o1 \in {"network", "timeout"}, o2 \in CrmOutcomes}

\* what a handler does inside `try: async with BitrixAPIClient(...)` with one
\* CRM request: without webhook data the subscript raises TypeError before
\* any request; otherwise the request is made once and its outcome replied
CrmRun(g, method, id, fields, okReply) ==
    IF ~g.data.ok
    THEN {[nets |-> <<g.net>>, replies |-> <<"error: TypeError">>, outcome |-> "none"]}
    ELSE {[nets |-> <<g.net, Net("crm", method, id, fields, o)>>,
           replies |-> <<IF o = "ok" THEN okReply ELSE ErrReply(o)>>,
           outcome |-> o] : o \in CrmOutcomes}

\* BitrixAPIClient.add_comment's method_map
CommentMethod(entity_type) ==
    CASE entity_type = "deal" -> "crm.deal.comment.add"
      [] entity_type = "task" -> "tasks.task.comment.add"
      [] entity_type = "lead" -> "crm.lead.comment.add"

-----------------------------------------------------------------------------
(* Commands                                                                *)

cmd_start(u, text) ==
    /\ Dispatch(State(u), text) = "cmd_start"
    /\ Finish(u, "cmd_start", text, Out(State(u), Data(u), <<>>, <<"welcome">>))

cmd_help(u, text) ==
    /\ Dispatch(State(u), text) = "cmd_help"
    /\ Finish(u, "cmd_help", text, Out(State(u), Data(u), <<>>, <<"help">>))

cmd_auth(u, text) ==
    /\ Dispatch(State(u), text) = "cmd_auth"
    /\ Finish(u, "cmd_auth", text,
              Out("AuthStates:waiting_webhook", Data(u), <<>>, <<"send the webhook URL">>))

\* BackendAPIClient.test_bitrix_connection: every failure is success = False
ProbeOutcomes == {"ok", "api_error", "http_error", "timeout", "network"}

\* BackendAPIClient.save_bitrix_webhook: the POST and BitrixTokenByTelegramView.post
SaveOutcomes == {"ok", "down"}

\* BitrixWebhookSerializer.validate_full_webhook_url: the value that is stored
validate_full_webhook_url(value) == RStripCh(Strip(value), "/")

\* a process_webhook that asks again after a malformed URL
process_webhook_reprompt(u, text) ==
    /\ Dispatch(State(u), text) = "process_webhook"
    /\ Finish(u, "process_webhook", text,
              Out(State(u), Data(u), <<>>, <<"malformed webhook">>))

\* a process_webhook that saves the URL whatever the connectivity test says
process_webhook_untested(u, text) ==
    /\ Dispatch(State(u), text) = "process_webhook"
    /\ LET webhook_url == Strip(text)
       IN  IF ~validate_webhook_url(webhook_url)
           THEN Finish(u, "process_webhook", text,
                       Out(NoState, NoData, <<>>, <<"malformed webhook">>))
           ELSE \E p \in ProbeOutcomes :
                  LET probe == Net("probe", "user.current", webhook_url, <<>>, p)
                      save == Net("store", "POST", webhook_url, <<>>, "ok")
                  IN  Finish(u, "process_webhook", text,
                         [Out(NoState, NoData, <<probe, save>>,
                              <<IF p = "ok" THEN "linked" ELSE "connection error">>)
                            EXCEPT !.sto =
                              <<[exists |-> TRUE,
                                 url |-> validate_full_webhook_url(webhook_url)]>>])

process_webhook(u, text) ==
    /\ Dispatch(State(u), text) = "process_webhook"
    /\ LET webhook_url == Strip(text)
       IN  IF ~validate_webhook_url(webhook_url)
           THEN Finish(u, "process_webhook", text,
                       Out(NoState, NoData, <<>>, <<"malformed webhook">>))
           ELSE \E p \in ProbeOutcomes :
                  LET probe == Net("probe", "user.current", webhook_url, <<>>, p)
                  IN  IF p # "ok"
                      THEN Finish(u, "process_webhook", text,
                                  Out(NoState, NoData, <<probe>>, <<"connection error">>))
                      ELSE \E sv \in SaveOutcomes :
                             LET save == Net("store", "POST", webhook_url, <<>>, sv)
                             IN  IF sv = "ok"
                                 THEN Finish(u, "process_webhook", text,
                                        [Out(NoState, NoData, <<probe, save>>, <<"linked">>)
                                           EXCEPT !.sto =
                                             <<[exists |-> TRUE,
                                                url |-> validate_full_webhook_url(webhook_url)]>>])
                                 ELSE Finish(u, "process_webhook", text,
                                        Out(NoState, NoData, <<probe, save>>, <<"save error">>))

\* a /logout that reports success while the store keeps the credential
cmd_logout_reported(u, text) ==
    /\ Dispatch(State(u), text) = "cmd_logout"
    /\ LET del == Net("store", "DELETE", <<>>, <<>>, "ok")
       IN  Finish(u, "cmd_logout", text, Out(State(u), Data(u), <<del>>, <<"unlinked">>))

\* BackendAPIClient.delete_bitrix_webhook with BitrixTokenByTelegramView.delete
\* and TelegramUser.disconnect_bitrix
cmd_logout(u, text) ==
    /\ Dispatch(State(u), text) = "cmd_logout"
    /\ \E dl \in {"answer", "down"} :
         LET outcome == IF dl = "down" THEN "down"
                        ELSE IF stored[u].exists THEN "ok" ELSE "404"
             del == Net("store", "DELETE", <<>>, <<>>, outcome)
         IN  IF outcome = "ok"
             THEN Finish(u, "cmd_logout", text,
                    [Out(State(u), Data(u), <<del>>, <<"unlinked">>)
                       EXCEPT !.sto = <<[exists |-> TRUE, url |-> <<>>]>>])
             ELSE Finish(u, "cmd_logout", text,
                    Out(State(u), Data(u), <<del>>, <<"unlink error">>))

\* the first lines of every flow trigger: fetch the webhook, refuse when the
\* user is not linked, otherwise prompt and enter the first state
Trigger(u, h, text, first, prompt) ==
    \E g \in get_bitrix_webhook(u) :
       IF ~check_bitrix_connected(g.data)
       THEN Finish(u, h, text, Out(State(u), Data(u), <<g.net>>, <<"not linked">>))
       ELSE Finish(u, h, text, Out(first, Data(u), <<g.net>>, <<prompt>>))

\* a step that stores the text under a key, prompts and moves on
Capture(u, h, text, key, next, prompt) ==
    Finish(u, h, text, Out(next, Put(Data(u), key, StrV(text)), <<>>, <<prompt>>))

-----------------------------------------------------------------------------
(* Lead creation                                                           *)

cmd_create_lead(u, text) ==
    /\ Dispatch(State(u), text) = "cmd_create_lead"
    /\ Trigger(u, "cmd_create_lead", text, "LeadCreationStates:waiting_name",
               "enter lead name")

process_lead_name(u, text) ==
    /\ Dispatch(State(u), text) = "process_lead_name"
    /\ Capture(u, "process_lead_name", text, "name", "LeadCreationStates:waiting_phone",
               "enter lead phone")

process_lead_phone(u, text) ==
    /\ Dispatch(State(u), text) = "process_lead_phone"
    /\ Capture(u, "process_lead_phone", text, "phone", "LeadCreationStates:waiting_source",
               "enter lead source")

process_lead_source(u, text) ==
    /\ Dispatch(State(u), text) = "process_lead_source"
    /\ Capture(u, "process_lead_source", text, "source", "LeadCreationStates:waiting_title",
               "enter lead title")

\* lead fields with the name and the phone exchanged
LeadFieldsSwapped(user_data) ==
    [NAME |-> Get(user_data, "phone", StrV(<<>>)),
     PHONE |-> MultiV(Get(user_data, "name", StrV(<<>>)).s),
     SOURCE_ID |-> Get(user_data, "source", AtomV("WEB")),
     TITLE |-> Get(user_data, "title", AtomV("New lead"))]

\* the fields process_lead_title builds from the collected data
LeadFields(user_data) ==
    [NAME |-> Get(user_data, "name", StrV(<<>>)),
     PHONE |-> MultiV(Get(user_data, "phone", StrV(<<>>)).s),
     SOURCE_ID |-> Get(user_data, "source", AtomV("WEB")),
     TITLE |-> Get(user_data, "title", AtomV("New lead"))]

process_lead_title(u, text) ==
    /\ Dispatch(State(u), text) = "process_lead_title"
    /\ LET user_data == Put(Data(u), "title", StrV(text))
       IN  \E g \in get_bitrix_webhook(u) :
           \E r \in CrmRun(g, "crm.lead.add", <<>>,
                           WithAssigned(g.data, "ASSIGNED_BY_ID", LeadFields(user_data)),
                           "lead created") :
              Finish(u, "process_lead_title", text, Out(NoState, NoData, r.nets, r.replies))

\* a callback query: only a button of a keyboard the bot has sent can be pressed
Pressed(u, cb, h) ==
    /\ cb.prefix \in keyboards[u]
    /\ cb.value \in Buttons(cb.prefix)
    /\ DispatchCallback(State(u), cb) = h

CbText(cb) == <<cb.prefix, cb.value>>

-----------------------------------------------------------------------------
(* Deal creation                                                           *)

cmd_create_deal(u, text) ==
    /\ Dispatch(State(u), text) = "cmd_create_deal"
    /\ Trigger(u, "cmd_create_deal", text, "DealCreationStates:waiting_title",
               "enter deal title")

\* stores the title and sends the stage keyboard; the state is not changed
process_deal_title(u, text) ==
    /\ Dispatch(State(u), text) = "process_deal_title"
    /\ Finish(u, "process_deal_title", text,
              [Out(State(u), Put(Data(u), "title", StrV(text)), <<>>, <<"choose deal stage">>)
                 EXCEPT !.kb = "stage_"])

process_deal_stage(u, cb) ==
    /\ Pressed(u, cb, "process_deal_stage")
    /\ Finish(u, "process_deal_stage", CbText(cb),
              Out("DealCreationStates:waiting_amount",
                  Put(Data(u), "stage", AtomV(cb.value)), <<>>, <<"enter deal amount">>))

process_deal_amount(u, text) ==
    /\ Dispatch(State(u), text) = "process_deal_amount"
    /\ LET txt == Replace(text, <<",">>, <<".">>)
       IN  IF FloatOk(txt)
           THEN Finish(u, "process_deal_amount", text,
                       Out("DealCreationStates:waiting_contact",
                           Put(Data(u), "amount", FloatV(txt)), <<>>, <<"enter contact id">>))
           ELSE Finish(u, "process_deal_amount", text,
                       Out(State(u), Data(u), <<>>, <<"enter a correct amount">>))

\* the fields process_deal_contact builds
DealFields(user_data, contact_id) ==
    LET base == [TITLE |-> Get(user_data, "title", StrV(<<>>)),
                 STAGE_ID |-> Get(user_data, "stage", AtomV("NEW")),
                 OPPORTUNITY |-> Get(user_data, "amount", IntV(0)),
                 CURRENCY_ID |-> AtomV("RUB")]
    IN  IF contact_id = <<>> THEN base
        ELSE IF StartsWith(contact_id, <<"C", "_">>)
             THEN Put(base, "CONTACT_ID", StrV(Replace(contact_id, <<"C", "_">>, <<>>)))
        ELSE IF StartsWith(contact_id, <<"C", "O", "_">>)
             THEN Put(base, "COMPANY_ID", StrV(Replace(contact_id, <<"C", "O", "_">>, <<>>)))
        ELSE Put(base, "CONTACT_ID", StrV(contact_id))

process_deal_contact(u, text) ==
    /\ Dispatch(State(u), text) = "process_deal_contact"
    /\ LET contact_id == Strip(text)
           user_data == Put(Data(u), "contact_id",
                            IF contact_id = <<>> THEN NoneVal ELSE StrV(contact_id))
       IN  \E g \in get_bitrix_webhook(u) :
           \E r \in CrmRun(g, "crm.deal.add", <<>>,
                           WithAssigned(g.data, "ASSIGNED_BY_ID",
                                        DealFields(user_data, contact_id)),
                           "deal created") :
              Finish(u, "process_deal_contact", text, Out(NoState, NoData, r.nets, r.replies))

-----------------------------------------------------------------------------
(* Task creation                                                           *)

cmd_create_task(u, text) ==
    /\ Dispatch(State(u), text) = "cmd_create_task"
    /\ Trigger(u, "cmd_create_task", text, "TaskCreationStates:waiting_title",
               "enter task title")

process_task_title(u, text) ==
    /\ Dispatch(State(u), text) = "process_task_title"
    /\ Capture(u, "process_task_title", text, "title",
               "TaskCreationStates:waiting_description", "enter task description")

\* stores the description and sends the priority keyboard; the state is not
\* changed
process_task_description(u, text) ==
    /\ Dispatch(State(u), text) = "process_task_description"
    /\ Finish(u, "process_task_description", text,
              [Out(State(u), Put(Data(u), "description", StrV(text)), <<>>,
                   <<"choose task priority">>) EXCEPT !.kb = "priority_"])

process_task_priority(u, cb) ==
    /\ Pressed(u, cb, "process_task_priority")
    /\ Finish(u, "process_task_priority", CbText(cb),
              Out("TaskCreationStates:waiting_deadline",
                  Put(Data(u), "priority", IntV(IntVal(<<cb.value>>))), <<>>,
                  <<"enter task deadline">>))

\* the fields process_task_deadline builds
TaskFields(user_data, deadline) ==
    LET base == [TITLE |-> Get(user_data, "title", AtomV("New task")),
                 DESCRIPTION |-> Get(user_data, "description", StrV(<<>>)),
                 PRIORITY |-> Get(user_data, "priority", IntV(3))]
    IN  IF deadline = <<>> THEN base ELSE Put(base, "DEADLINE", StrV(deadline))

\* the webhook is fetched and the client opened before the date is checked;
\* a bad date replies and returns without clearing the session
process_task_deadline(u, text) ==
    /\ Dispatch(State(u), text) = "process_task_deadline"
    /\ LET deadline == Strip(text)
           user_data == Data(u)
       IN  \E g \in get_bitrix_webhook(u) :
              IF g.data.ok /\ deadline # <<>> /\ ~StrptimeOk(deadline)
              THEN Finish(u, "process_task_deadline", text,
                          Out(State(u), Data(u), <<g.net>>, <<"wrong date format">>))
              ELSE \E r \in CrmRun(g, "tasks.task.add", <<>>,
                                   WithAssigned(g.data, "RESPONSIBLE_ID",
                                                TaskFields(user_data, deadline)),
                                   "task created") :
                     Finish(u, "process_task_deadline", text,
                            Out(NoState, NoData, r.nets, r.replies))

-----------------------------------------------------------------------------
(* Contact creation                                                        *)

cmd_create_contact(u, text) ==
    /\ Dispatch(State(u), text) = "cmd_create_contact"
    /\ Trigger(u, "cmd_create_contact", text, "ContactCreationStates:waiting_first_name",
               "enter contact first name")

process_contact_first_name(u, text) ==
    /\ Dispatch(State(u), text) = "process_contact_first_name"
    /\ Capture(u, "process_contact_first_name", text, "first_name",
               "ContactCreationStates:waiting_last_name", "enter contact last name")

process_contact_last_name(u, text) ==
    /\ Dispatch(State(u), text) = "process_contact_last_name"
    /\ Capture(u, "process_contact_last_name", text, "last_name",
               "ContactCreationStates:waiting_phone", "enter contact phone")

process_contact_phone(u, text) ==
    /\ Dispatch(State(u), text) = "process_contact_phone"
    /\ Capture(u, "process_contact_phone", text, "phone",
               "ContactCreationStates:waiting_email", "enter contact email")

\* the fields process_contact_email builds
ContactFields(user_data, email) ==
    LET base == [NAME |-> Get(user_data, "first_name", StrV(<<>>)),
                 LAST_NAME |-> Get(user_data, "last_name", StrV(<<>>))]
        phone == Get(user_data, "phone", NoneVal)
        withPhone == IF Truthy(phone) THEN Put(base, "PHONE", MultiV(phone.s)) ELSE base
    IN  IF email = <<>> THEN withPhone ELSE Put(withPhone, "EMAIL", MultiV(email))

process_contact_email(u, text) ==
    /\ Dispatch(State(u), text) = "process_contact_email"
    /\ \E g \in get_bitrix_webhook(u) :
       \E r \in CrmRun(g, "crm.contact.add", <<>>, ContactFields(Data(u), Strip(text)),
                       "contact created") :
          Finish(u, "process_contact_email", text, Out(NoState, NoData, r.nets, r.replies))

-----------------------------------------------------------------------------
(* Quick deal                                                              *)

cmd_quick_deal(u, text) ==
    /\ Dispatch(State(u), text) = "cmd_quick_deal"
    /\ Trigger(u, "cmd_quick_deal", text, "QuickDealStates:waiting_title",
               "enter quick deal title")

process_quick_deal_title(u, text) ==
    /\ Dispatch(State(u), text) = "process_quick_deal_title"
    /\ Capture(u, "process_quick_deal_title", text, "title", "QuickDealStates:waiting_amount",
               "enter deal amount")

\* the fields process_quick_deal_amount builds
QuickDealFields(user_data, amount) ==
    [TITLE |-> Get(user_data, "title", StrV(<<>>)),
     STAGE_ID |-> AtomV("NEW"),
     OPPORTUNITY |-> amount,
     CURRENCY_ID |-> AtomV("RUB")]

\* the amount is parsed before the webhook is fetched; a bad amount replies
\* and returns without clearing the session
process_quick_deal_amount(u, text) ==
    /\ Dispatch(State(u), text) = "process_quick_deal_amount"
    /\ LET txt == Replace(text, <<",">>, <<".">>)
       IN  IF ~FloatOk(txt)
           THEN Finish(u, "process_quick_deal_amount", text,
                       Out(State(u), Data(u), <<>>, <<"enter a correct amount">>))
           ELSE \E g \in get_bitrix_webhook(u) :
                \E r \in CrmRun(g, "crm.deal.add", <<>>,
                                WithAssigned(g.data, "ASSIGNED_BY_ID",
                                             QuickDealFields(Data(u), FloatV(txt))),
                                "quick deal created") :
                   Finish(u, "process_quick_deal_amount", text,
                          Out(NoState, NoData, r.nets, r.replies))

-----------------------------------------------------------------------------
(* Edit flows: deal, task, lead                                            *)

\* an entity trigger that notes the id before it looks the entity up
EntityTriggerIdFirst(u, h, text, words, getMethod, catches, idKey, kb, first) ==
    LET id == Strip(Replace(text, words, <<>>))
        d == Put(Data(u), idKey, StrV(id))
    IN  IF id = <<>>
        THEN Finish(u, h, text, Out(State(u), Data(u), <<>>, <<"give the id">>))
        ELSE \E g \in get_bitrix_webhook(u) :
               IF ~check_bitrix_connected(g.data)
               THEN Finish(u, h, text, Out(State(u), Data(u), <<g.net>>, <<"not linked">>))
               ELSE \E o \in CrmOutcomes :
                      LET nets == <<g.net, Net("crm", getMethod, id, <<>>, o)>>
                      IN  IF o = "ok"
                          THEN Finish(u, h, text,
                                 [Out(first, d, nets, <<"entity found">>) EXCEPT !.kb = kb])
                          ELSE Finish(u, h, text,
                                 Out(State(u), d, nets,
                                     <<IF catches THEN "not found" ELSE ErrReply(o)>>))

\* the first lines of cmd_edit_deal / cmd_edit_task / cmd_edit_lead /
\* cmd_reassign_task: the id is the text without the command words; the
\* entity is fetched to see that it exists; get_task (catches = TRUE) turns a
\* failed request into an error payload, the other getters let it raise
EntityTrigger(u, h, text, words, getMethod, catches, idKey, kb, first) ==
    LET id == Strip(Replace(text, words, <<>>))
    IN  IF id = <<>>
        THEN Finish(u, h, text, Out(State(u), Data(u), <<>>, <<"give the id">>))
        ELSE \E g \in get_bitrix_webhook(u) :
               IF ~check_bitrix_connected(g.data)
               THEN Finish(u, h, text, Out(State(u), Data(u), <<g.net>>, <<"not linked">>))
               ELSE \E o \in CrmOutcomes :
                      LET nets == <<g.net, Net("crm", getMethod, id, <<>>, o)>>
                      IN  IF o = "ok"
                          THEN Finish(u, h, text,
                                 [Out(first, Put(Data(u), idKey, StrV(id)), nets,
                                      <<"entity found">>) EXCEPT !.kb = kb])
                          ELSE Finish(u, h, text,
                                 Out(State(u), Data(u), nets,
                                     <<IF catches THEN "not found" ELSE ErrReply(o)>>))

\* process_deal_field / process_task_field / process_lead_field
FieldChosen(u, h, cb, next) ==
    Finish(u, h, CbText(cb),
           Out(next, Put(Data(u), "field", AtomV(cb.value)), <<>>, <<"enter the new value">>))

Accepted(v) == [ok |-> TRUE, v |-> v, err |-> ""]

Rejected(err) == [ok |-> FALSE, v |-> NoneVal, err |-> err]

\* process_deal_value: the value of a deal field
DealValue(field, value) ==
    CASE field = "OPPORTUNITY" ->
           IF FloatOk(Replace(value, <<",">>, <<".">>))
           THEN Accepted(FloatV(Replace(value, <<",">>, <<".">>)))
           ELSE Rejected("enter a correct amount")
      [] field = "PROBABILITY" ->
           IF ~IntOk(value) THEN Rejected("enter a number from 0 to 100")
           ELSE IF IntVal(value) >= 0 /\ IntVal(value) <= 100
                THEN Accepted(IntV(IntVal(value)))
                ELSE Rejected("probability must be from 0 to 100")
      [] OTHER -> Accepted(StrV(value))

\* process_task_value: the value of a task field
TaskValue(field, value) ==
    CASE field = "PRIORITY" ->
           IF ~IntOk(value) THEN Rejected("enter 1, 2 or 3")
           ELSE IF IntVal(value) \in {1, 2, 3}
                THEN Accepted(IntV(IntVal(value)))
                ELSE Rejected("priority must be 1, 2 or 3")
      [] field = "STATUS" ->
           IF ~IntOk(value) THEN Rejected("enter 1, 2, 3 or 5")
           ELSE IF IntVal(value) \in {1, 2, 3, 5}
                THEN Accepted(IntV(IntVal(value)))
                ELSE Rejected("status must be 1, 2, 3 or 5")
      [] field = "DEADLINE" ->
           IF StrptimeOk(value) THEN Accepted(StrV(value))
           ELSE Rejected("wrong date format")
      [] field = "RESPONSIBLE_ID" ->
           IF IntOk(value) THEN Accepted(IntV(IntVal(value)))
           ELSE Rejected("enter a numeric user id")
      [] OTHER -> Accepted(StrV(value))

\* process_lead_value: the value of a lead field
LeadValue(field, value) ==
    CASE field \in {"PHONE", "EMAIL"} -> Accepted(MultiV(value))
      [] field = "ASSIGNED_BY_ID" ->
           IF IntOk(value) THEN Accepted(IntV(IntVal(value)))
           ELSE Rejected("enter a numeric user id")
      [] OTHER -> Accepted(StrV(value))

UpdateMethod(entity_type) ==
    CASE entity_type = "deal" -> "crm.deal.update"
      [] entity_type = "task" -> "tasks.task.update"
      [] entity_type = "lead" -> "crm.lead.update"

\* a value step that sends every field, the comment too, as an update
EditCallAlwaysUpdate(entity_type, field, value, v) ==
    [method |-> UpdateMethod(entity_type), fields |-> Put(<<>>, field, v),
     okReply |-> "updated"]

\* the request a value step sends for a field: add_comment for COMMENTS,
\* update_deal / update_task / update_lead for every other field
EditCall(entity_type, field, value, v) ==
    IF field = "COMMENTS"
    THEN [method |-> CommentMethod(entity_type), fields |-> [COMMENT |-> StrV(value)],
          okReply |-> "comment added"]
    ELSE [method |-> UpdateMethod(entity_type), fields |-> Put(<<>>, field, v),
          okReply |-> "updated"]

\* process_deal_value / process_task_value / process_lead_value: the webhook
\* is fetched and the client opened before the value is checked
ValueStep(u, h, text, entity_type, idKey, conv) ==
    LET value == Strip(text)
        id == Get(Data(u), idKey, NoneVal)
        field == Get(Data(u), "field", NoneVal)
    IN  IF ~Truthy(id) \/ ~Truthy(field)
        THEN Finish(u, h, text, Out(NoState, NoData, <<>>, <<"no entity data">>))
        ELSE \E g \in get_bitrix_webhook(u) :
               IF g.data.ok /\ field.s[1] # "COMMENTS" /\ ~conv.ok
               THEN Finish(u, h, text, Out(State(u), Data(u), <<g.net>>, <<conv.err>>))
               ELSE LET call == EditCall(entity_type, field.s[1], value, conv.v)
                    IN  \E r \in CrmRun(g, call.method, id.s, call.fields, call.okReply) :
                           Finish(u, h, text, Out(NoState, NoData, r.nets, r.replies))

FieldOf(u) == Get(Data(u), "field", AtomV("")).s[1]

cmd_edit_deal(u, text) ==
    /\ Dispatch(State(u), text) = "cmd_edit_deal"
    /\ EntityTrigger(u, "cmd_edit_deal", text, <<"E","d","i","t"," ","d","e","a","l">>, "crm.deal.get", FALSE,
                     "deal_id", "field_", "DealEditStates:waiting_field")

process_deal_field(u, cb) ==
    /\ Pressed(u, cb, "process_deal_field")
    /\ FieldChosen(u, "process_deal_field", cb, "DealEditStates:waiting_value")

process_deal_value(u, text) ==
    /\ Dispatch(State(u), text) = "process_deal_value"
    /\ ValueStep(u, "process_deal_value", text, "deal", "deal_id",
                 DealValue(FieldOf(u), Strip(text)))

cmd_edit_task(u, text) ==
    /\ Dispatch(State(u), text) = "cmd_edit_task"
    /\ EntityTrigger(u, "cmd_edit_task", text, <<"E","d","i","t"," ","t","a","s","k">>, "tasks.task.get", TRUE,
                     "task_id", "taskfield_", "TaskEditStates:waiting_field")

process_task_field(u, cb) ==
    /\ Pressed(u, cb, "process_task_field")
    /\ FieldChosen(u, "process_task_field", cb, "TaskEditStates:waiting_value")

process_task_value(u, text) ==
    /\ Dispatch(State(u), text) = "process_task_value"
    /\ ValueStep(u, "process_task_value", text, "task", "task_id",
                 TaskValue(FieldOf(u), Strip(text)))

cmd_edit_lead(u, text) ==
    /\ Dispatch(State(u), text) = "cmd_edit_lead"
    /\ EntityTrigger(u, "cmd_edit_lead", text, <<"E","d","i","t"," ","l","e","a","d">>, "crm.lead.get", FALSE,
                     "lead_id", "leadfield_", "LeadEditStates:waiting_field")

process_lead_field(u, cb) ==
    /\ Pressed(u, cb, "process_lead_field")
    /\ FieldChosen(u, "process_lead_field", cb, "LeadEditStates:waiting_value")

process_lead_value(u, text) ==
    /\ Dispatch(State(u), text) = "process_lead_value"
    /\ ValueStep(u, "process_lead_value", text, "lead", "lead_id",
                 LeadValue(FieldOf(u), Strip(text)))

-----------------------------------------------------------------------------
(* Task reassignment                                                       *)

cmd_reassign_task(u, text) ==
    /\ Dispatch(State(u), text) = "cmd_reassign_task"
    /\ EntityTrigger(u, "cmd_reassign_task", text, <<"R","e","a","s","s","i","g","n"," ","t","a","s","k">>, "tasks.task.get", TRUE,
                     "task_id", "", "TaskReassignStates:waiting_responsible")

\* the id is checked before the webhook is fetched
process_task_responsible(u, text) ==
    /\ Dispatch(State(u), text) = "process_task_responsible"
    /\ LET responsible_id == Strip(text)
           task_id == Get(Data(u), "task_id", NoneVal)
       IN  IF ~Truthy(task_id)
           THEN Finish(u, "process_task_responsible", text,
                       Out(NoState, NoData, <<>>, <<"no entity data">>))
           ELSE IF responsible_id = <<>>
           THEN Finish(u, "process_task_responsible", text,
                       Out(State(u), Data(u), <<>>, <<"enter a user id">>))
           ELSE IF ~IntOk(responsible_id)
           THEN Finish(u, "process_task_responsible", text,
                       Out(State(u), Data(u), <<>>, <<"enter a numeric user id">>))
           ELSE \E g \in get_bitrix_webhook(u) :
                \E r \in CrmRun(g, "tasks.task.update", task_id.s,
                                [RESPONSIBLE_ID |-> IntV(IntVal(responsible_id))],
                                "reassigned") :
                   Finish(u, "process_task_responsible", text,
                          Out(NoState, NoData, r.nets, r.replies))

-----------------------------------------------------------------------------
(* Comment on an entity                                                    *)

\* str.lower() on the letters of the alphabet
Lower(s) ==
    LET up == <<"A","B","C","D","E","F","G","H","I","J","K","L","M",
                "N","O","P","Q","R","S","T","U","V","W","X","Y","Z">>
        lo == <<"a","b","c","d","e","f","g","h","i","j","k","l","m",
                "n","o","p","q","r","s","t","u","v","w","x","y","z">>
    IN  [i \in 1..Len(s) |->
            IF \E k \in 1..26 : up[k] = s[i]
            THEN lo[CHOOSE k \in 1..26 : up[k] = s[i]]
            ELSE s[i]]

\* cmd_add_comment: the entity type is read from a word in the text, the id
\* is the text without that word (lower-case and upper-case spelling only)
CommentEntity(entity_info) ==
    LET cut(w, W) == Strip(Replace(Replace(entity_info, w, <<>>), W, <<>>))
    IN  IF Contains(Lower(entity_info), <<"d","e","a","l">>)
        THEN [type |-> "deal", id |-> cut(<<"d","e","a","l">>, <<"D","E","A","L">>)]
        ELSE IF Contains(Lower(entity_info), <<"t","a","s","k">>)
        THEN [type |-> "task", id |-> cut(<<"t","a","s","k">>, <<"T","A","S","K">>)]
        ELSE IF Contains(Lower(entity_info), <<"l","e","a","d">>)
        THEN [type |-> "lead", id |-> cut(<<"l","e","a","d">>, <<"L","E","A","D">>)]
        ELSE [type |-> "deal", id |-> Strip(entity_info)]

cmd_add_comment(u, text) ==
    /\ Dispatch(State(u), text) = "cmd_add_comment"
    /\ LET entity_info == Strip(Replace(text, <<"A","d","d"," ","c","o","m","m","e","n","t"," ","t","o">>, <<>>))
           e == CommentEntity(entity_info)
       IN  IF entity_info = <<>>
           THEN Finish(u, "cmd_add_comment", text,
                       Out(State(u), Data(u), <<>>, <<"give the id">>))
           ELSE \E g \in get_bitrix_webhook(u) :
                  IF ~check_bitrix_connected(g.data)
                  THEN Finish(u, "cmd_add_comment", text,
                              Out(State(u), Data(u), <<g.net>>, <<"not linked">>))
                  ELSE IF e.id = <<>>
                  THEN Finish(u, "cmd_add_comment", text,
                              Out(State(u), Data(u), <<g.net>>, <<"give the id">>))
                  ELSE Finish(u, "cmd_add_comment", text,
                              Out("CommentStates:waiting_comment",
                                  Put(Put(Data(u), "entity_type", AtomV(e.type)),
                                      "entity_id", StrV(e.id)),
                                  <<g.net>>, <<"enter the comment">>))

\* a process_comment_text that clears the session only after a success
process_comment_text_keep(u, text) ==
    /\ Dispatch(State(u), text) = "process_comment_text"
    /\ LET entity_type == Get(Data(u), "entity_type", NoneVal)
           entity_id == Get(Data(u), "entity_id", NoneVal)
       IN  IF ~Truthy(entity_type) \/ ~Truthy(entity_id)
           THEN Finish(u, "process_comment_text", text,
                       Out(NoState, NoData, <<>>, <<"no entity data">>))
           ELSE \E g \in get_bitrix_webhook(u) :
                \E r \in CrmRun(g, CommentMethod(entity_type.s[1]), entity_id.s,
                                [COMMENT |-> StrV(Strip(text))], "comment added") :
                   Finish(u, "process_comment_text", text,
                          IF r.outcome = "ok" THEN Out(NoState, NoData, r.nets, r.replies)
                          ELSE Out(State(u), Data(u), r.nets, r.replies))

process_comment_text(u, text) ==
    /\ Dispatch(State(u), text) = "process_comment_text"
    /\ LET entity_type == Get(Data(u), "entity_type", NoneVal)
           entity_id == Get(Data(u), "entity_id", NoneVal)
       IN  IF ~Truthy(entity_type) \/ ~Truthy(entity_id)
           THEN Finish(u, "process_comment_text", text,
                       Out(NoState, NoData, <<>>, <<"no entity data">>))
           ELSE \E g \in get_bitrix_webhook(u) :
                \E r \in CrmRun(g, CommentMethod(entity_type.s[1]), entity_id.s,
                                [COMMENT |-> StrV(Strip(text))], "comment added") :
                   Finish(u, "process_comment_text", text,
                          Out(NoState, NoData, r.nets, r.replies))

-----------------------------------------------------------------------------
(* Lead status                                                             *)

\* crm.lead.status.list may also answer without a result
StatusListOutcomes == CrmOutcomes \cup {"no_result"}

\* the lead is fetched, then the status list; with a list the status
\* keyboard is sent and no state is entered, without one the status is asked
\* for as text
cmd_change_lead_status(u, text) ==
    /\ Dispatch(State(u), text) = "cmd_change_lead_status"
    /\ LET lead_id == Strip(Replace(text, <<"C","h","a","n","g","e"," ","l","e","a","d"," ","s","t","a","t","u","s">>, <<>>))
           h == "cmd_change_lead_status"
       IN  IF lead_id = <<>>
           THEN Finish(u, h, text, Out(State(u), Data(u), <<>>, <<"give the id">>))
           ELSE \E g \in get_bitrix_webhook(u) :
                  IF ~check_bitrix_connected(g.data)
                  THEN Finish(u, h, text, Out(State(u), Data(u), <<g.net>>, <<"not linked">>))
                  ELSE \E o1 \in CrmOutcomes :
                         LET get == Net("crm", "crm.lead.get", lead_id, <<>>, o1)
                         IN  IF o1 # "ok"
                             THEN Finish(u, h, text,
                                    Out(State(u), Data(u), <<g.net, get>>, <<ErrReply(o1)>>))
                             ELSE \E o2 \in StatusListOutcomes :
                                    LET list == Net("crm", "crm.lead.status.list", <<>>, <<>>, o2)
                                        nets == <<g.net, get, list>>
                                        d == Put(Data(u), "lead_id", StrV(lead_id))
                                    IN  IF o2 = "ok"
                                        THEN Finish(u, h, text,
                                               [Out(State(u), d, nets, <<"choose the status">>)
                                                  EXCEPT !.kb = "leadstatus_"])
                                        ELSE IF o2 = "no_result"
                                        THEN Finish(u, h, text,
                                               Out("LeadStatusStates:waiting_status", d, nets,
                                                   <<"enter the status">>))
                                        ELSE Finish(u, h, text,
                                               Out(State(u), Data(u), nets, <<ErrReply(o2)>>))

\* the last lines of both status handlers: update the lead, answer, clear
StatusStep(u, h, text, lead_id, status) ==
    \E g \in get_bitrix_webhook(u) :
    \E r \in CrmRun(g, "crm.lead.update", lead_id.s, [STATUS_ID |-> status],
                    "status changed") :
       Finish(u, h, text, Out(NoState, NoData, r.nets, r.replies))

process_lead_status_selection(u, cb) ==
    /\ Pressed(u, cb, "process_lead_status_selection")
    /\ LET lead_id == Get(Data(u), "lead_id", NoneVal)
       IN  IF ~Truthy(lead_id)
           THEN Finish(u, "process_lead_status_selection", CbText(cb),
                       Out(NoState, NoData, <<>>, <<"no entity data">>))
           ELSE StatusStep(u, "process_lead_status_selection", CbText(cb), lead_id,
                           AtomV(cb.value))

process_lead_status_input(u, text) ==
    /\ Dispatch(State(u), text) = "process_lead_status_input"
    /\ LET lead_id == Get(Data(u), "lead_id", NoneVal)
           status_id == Strip(text)
       IN  IF ~Truthy(lead_id)
           THEN Finish(u, "process_lead_status_input", text,
                       Out(NoState, NoData, <<>>, <<"no entity data">>))
           ELSE IF status_id = <<>>
           THEN Finish(u, "process_lead_status_input", text,
                       Out(State(u), Data(u), <<>>, <<"enter the status">>))
           ELSE StatusStep(u, "process_lead_status_input", text, lead_id, StrV(status_id))

-----------------------------------------------------------------------------
(* Sample inputs                                                           *)

T_CreateLead == <<"C","r","e","a","t","e"," ","l","e","a","d">>

T_Ivan == <<"I","v","a","n">>

T_Phone == <<"+","1","2","3","4">>

T_Logout == <<"/","l","o","g","o","u","t">>

T_CreateDeal == <<"C","r","e","a","t","e"," ","d","e","a","l">>

T_QuickDeal == <<"Q","u","i","c","k"," ","d","e","a","l">>

T_100 == <<"1","0","0">>

T_Auth == <<"/","a","u","t","h">>

T_Foreign == <<"h","t","t","p","s",":","/","/","e","v","i","l",".","c","o","m","/","r","e","s","t","/","1","/","a","b","c","d","e","f","/">>

T_EditDeal7 == <<"E","d","i","t"," ","d","e","a","l"," ","7">>

T_EditTask7 == <<"E","d","i","t"," ","t","a","s","k"," ","7">>

T_EditLead7 == <<"E","d","i","t"," ","l","e","a","d"," ","7">>

T_abc == <<"a","b","c">>

T_2 == <<"2">>

T_Help == <<"/","h","e","l","p">>

T_CreateTask == <<"C","r","e","a","t","e"," ","t","a","s","k">>

T_ReassignTask7 == <<"R","e","a","s","s","i","g","n"," ","t","a","s","k"," ","7">>

T_Date == <<"2","0","2","4","-","0","1","-","3","1">>

T_Start == <<"/","s","t","a","r","t">>

T_Hook == <<"h","t","t","p","s",":","/","/","a",".","b","i","t","r","i","x","2","4",".","r","u","/","r","e","s","t","/","1","/","a","b","c","d","e","f","/">>

T_CommentTask7 == <<"A","d","d"," ","c","o","m","m","e","n","t"," ","t","o"," ","t","a","s","k"," ","7">>

T_LeadStatus7 == <<"C","h","a","n","g","e"," ","l","e","a","d"," ","s","t","a","t","u","s"," ","7">>

T_CreateContact == <<"C","r","e","a","t","e"," ","c","o","n","t","a","c","t">>

T_Hook2 == <<"h","t","t","p","s",":","/","/","b",".","b","i","t","r","i","x","2","4",".","r","u","/","r","e","s","t","/","2","/","x","y","z","1","2","/">>

T_MyTasks == <<"M","y"," ","t","a","s","k","s">>

T_Task7 == <<"T","a","s","k"," ","7">>

T_MyDeals == <<"M","y"," ","d","e","a","l","s">>

T_Deal7 == <<"D","e","a","l"," ","7">>

\* a backend record holding a working webhook / no backend record at all
Linked == [exists |-> TRUE, url |-> validate_full_webhook_url(T_Hook)]

NoRecord == [exists |-> FALSE, url |-> <<>>]

\* the state after construction: MemoryStorage is empty, no keyboard was
\* sent, no update was received; `sto` is what the backend holds per user
InitWith(users, sto, w) ==
    /\ fsmState = [u \in users |-> NoState]
    /\ fsmData = [u \in users |-> NoData]
    /\ stored \in [users -> sto]
    /\ keyboards = [u \in users |-> {}]
    /\ runs = <<>>
    /\ window = w
    /\ tasks = <<>>
    /\ inbox = 0
    /\ clients = <<>>
    /\ active = <<>>
    /\ apiCall = [op |-> "none"]
    /\ apiResult = [op |-> "none"]

-----------------------------------------------------------------------------
(* Specification of the lead-creation scenario: a linked user sends the    *)
(* trigger and field values in any order                                   *)

LeadWindow == 5

LeadTexts == {T_CreateLead, T_Ivan, T_Phone}

InitLead == InitWith({"u1"}, {Linked}, LeadWindow)

NextLead ==
    \E u \in {"u1"}, text \in LeadTexts :
        \/ cmd_create_lead(u, text)
        \/ process_lead_name(u, text)
        \/ process_lead_phone(u, text)
        \/ process_lead_source(u, text)
        \/ process_lead_title(u, text)

SpecLead == InitLead /\ [][NextLead]_vars

\* the k-th of the five most recent handler runs
Recent(k) == runs[Len(runs) - 5 + k]

\* the text is a plain value: no command or prefix filter matches it
IsPlainText(text) ==
    \A i \in 1..Len(MessageHandlers) :
        MessageHandlers[i].kind \in {"command", "prefix"}
            => ~Matches(MessageHandlers[i], NoState, text)

\* the five most recent messages are the scenario: the lead trigger sent
\* from an idle session, then four plain values, with the credential store
\* answering the two requests made for the user's webhook
LeadScenario ==
    /\ Len(runs) >= 5
    /\ Recent(1).from = NoState
    /\ StartsWith(Recent(1).text, T_CreateLead)
    /\ Recent(1).nets[1].outcome = "ok"
    /\ \A k \in 2..5 : IsPlainText(Recent(k).text)
    /\ Recent(5).nets[1].outcome = "ok"

\* C1: the message sequence trigger, name, phone, source, title of a linked
\* user with an idle session is prompted for name, phone, source and title
\* in that order, then exactly one crm.lead.add request is issued with
\* NAME, PHONE, SOURCE_ID and TITLE as entered, and the session is cleared
C1_LeadCreationScenario ==
    LeadScenario =>
        /\ <<Recent(1).handler, Recent(2).handler, Recent(3).handler, Recent(4).handler,
             Recent(5).handler>>
           = <<"cmd_create_lead", "process_lead_name", "process_lead_phone",
               "process_lead_source", "process_lead_title">>
        /\ <<Recent(1).replies, Recent(2).replies, Recent(3).replies, Recent(4).replies>>
           = <<<<"enter lead name">>, <<"enter lead phone">>, <<"enter lead source">>,
               <<"enter lead title">>>>
        /\ Len(CrmCalls(Recent(5))) = 1
        /\ CrmCalls(Recent(5))[1].method = "crm.lead.add"
        /\ LET fields == CrmCalls(Recent(5))[1].fields
           IN  /\ fields.NAME = StrV(Recent(2).text)
               /\ fields.PHONE = MultiV(Recent(3).text)
               /\ fields.SOURCE_ID = StrV(Recent(4).text)
               /\ fields.TITLE = StrV(Recent(5).text)
        /\ fsmState[Recent(5).user] = NoState
        /\ fsmData[Recent(5).user] = NoData

\* C1 happens: the scenario was run with a name and a phone that differ and
\* the CRM accepted the lead
C1_Witness ==
    /\ LeadScenario
    /\ Recent(2).text = T_Ivan
    /\ Recent(3).text = T_Phone
    /\ CrmCalls(Recent(5))[1].outcome = "ok"
    /\ Recent(5).replies = <<"lead created">>

-----------------------------------------------------------------------------
(* Specification of the creation flows of one linked user: lead, deal and  *)
(* quick deal, with the stage keyboard                                     *)

Texts == {T_CreateLead, T_CreateDeal, T_QuickDeal, T_100}

\* the stage buttons the user presses
StagePressed == {[prefix |-> "stage_", value |-> "C2"]}

Init == InitWith({"u1"}, {Linked}, 1)

Next ==
    \/ \E u \in {"u1"}, text \in Texts :
        \/ cmd_create_lead(u, text)
        \/ process_lead_name(u, text)
        \/ process_lead_phone(u, text)
        \/ process_lead_source(u, text)
        \/ process_lead_title(u, text)
        \/ cmd_create_deal(u, text)
        \/ process_deal_title(u, text)
        \/ process_deal_amount(u, text)
        \/ process_deal_contact(u, text)
        \/ cmd_quick_deal(u, text)
        \/ process_quick_deal_title(u, text)
        \/ process_quick_deal_amount(u, text)
    \/ \E u \in {"u1"}, cb \in StagePressed :
        process_deal_stage(u, cb)

Spec == Init /\ [][Next]_vars

-----------------------------------------------------------------------------
(* Properties of the creation flows                                        *)

\* the text is the trigger text of flow g
IsTriggerOf(g, text) == Matches(HandlerNamed(FlowTrigger[g].name), NoState, text)

\* C4: a user who is in a state of one flow and sends the trigger text of
\* another flow gets that trigger handled, so the text is not stored as a
\* field value of the old flow and the new flow's first state is entered
\* when the webhook is found
C4_TriggerReplacesSession ==
    runs # <<>> =>
        \A g \in DOMAIN FlowTrigger :
            (/\ LastRun.from # NoState
             /\ LastRun.from \notin StatesGroups[g]
             /\ IsTriggerOf(g, LastRun.text))
            => /\ LastRun.handler = FlowTrigger[g].name
               /\ LastRun.replies # <<"not linked">>
                    => fsmState[LastRun.user] = FlowTrigger[g].first

\* the keys a flow trigger itself stores
TriggerKeys == {"deal_id", "task_id", "lead_id", "entity_type", "entity_id"}

\* C5: after a flow trigger was handled and its flow entered, the collected
\* fields hold nothing but what the trigger stored: no value of an abandoned
\* flow is left
C5_NoStaleFields ==
    runs # <<>> =>
        \A g \in DOMAIN FlowTrigger :
            (/\ LastRun.handler = FlowTrigger[g].name
             /\ fsmState[LastRun.user] = FlowTrigger[g].first
             /\ LastRun.replies \notin {<<"not linked">>, <<"give the id">>})
            => DOMAIN fsmData[LastRun.user] \subseteq TriggerKeys

-----------------------------------------------------------------------------
(* Specification of linking and unlinking: /auth, the webhook step, /logout *)
(* and a lead creation that may be interrupted by them                     *)

AuthTexts == {T_Start, T_Help, T_Auth, T_Logout, T_Hook, T_Foreign, T_CreateLead, T_Ivan}

InitAuth == InitWith({"u1"}, {NoRecord, Linked}, 1)

NextAuth ==
    \E u \in {"u1"}, text \in AuthTexts :
        \/ cmd_start(u, text)
        \/ cmd_help(u, text)
        \/ cmd_auth(u, text)
        \/ process_webhook(u, text)
        \/ cmd_logout(u, text)
        \/ cmd_create_lead(u, text)
        \/ process_lead_name(u, text)
        \/ process_lead_phone(u, text)
        \/ process_lead_source(u, text)
        \/ process_lead_title(u, text)

SpecAuth == InitAuth /\ [][NextAuth]_vars

\* the run that has just been made is the step of the webhook flow on a
\* text that validate_webhook_url rejects
MalformedWebhookRun(r) ==
    /\ r.from = "AuthStates:waiting_webhook"
    /\ r.handler = "process_webhook"
    /\ ~validate_webhook_url(Strip(r.text))

\* C8: in waiting_webhook a text that validate rejects ends the flow: the
\* session is cleared, no probe and no save request is sent, and the stored
\* credential is unchanged
C8_MalformedWebhookAborts ==
    [][(runs' # runs /\ MalformedWebhookRun(runs'[Len(runs')]))
        => LET r == runs'[Len(runs')]
           IN  /\ fsmState'[r.user] = NoState
               /\ fsmData'[r.user] = NoData
               /\ r.nets = <<>>
               /\ stored' = stored]_vars

\* C8 happens: a linked user's malformed webhook text was handled
C8_Witness ==
    /\ runs # <<>>
    /\ MalformedWebhookRun(LastRun)
    /\ stored[LastRun.user] = Linked
    /\ fsmState[LastRun.user] = NoState

\* the handlers that end a flow with a CRM request
TerminalHandlers ==
    {"process_lead_title", "process_deal_contact", "process_task_deadline",
     "process_contact_email", "process_deal_value", "process_task_value",
     "process_lead_value", "process_comment_text", "process_task_responsible",
     "process_lead_status_selection", "process_lead_status_input",
     "process_quick_deal_amount"}

\* C9: a terminal step handled while the credential store has no webhook
\* for the user fails as not linked, issues no CRM request and clears the
\* session
C9_TerminalStepRechecksLink ==
    (/\ runs # <<>>
     /\ LastRun.handler \in TerminalHandlers
     /\ LastRun.nets # <<>>
     /\ LastRun.nets[1].svc = "store"
     /\ LastRun.nets[1].outcome = "404")
    => /\ LastRun.replies = <<"not linked">>
       /\ CrmCalls(LastRun) = <<>>
       /\ fsmState[LastRun.user] = NoState

-----------------------------------------------------------------------------
(* Specification of the edit flows of one user: deal, task and lead, who   *)
(* starts linked and may log out at any time                               *)

EditTexts == {T_Logout, T_EditDeal7, T_EditTask7, T_EditLead7, T_abc, T_2}

\* the field buttons the user presses
EditPressed ==
    {[prefix |-> "field_", value |-> v] : v \in {"PROBABILITY", "COMMENTS"}}
    \cup {[prefix |-> "taskfield_", value |-> v] : v \in {"PRIORITY", "COMMENTS"}}
    \cup {[prefix |-> "leadfield_", value |-> v] : v \in {"ASSIGNED_BY_ID", "COMMENTS"}}

InitEdit == InitWith({"u1"}, {Linked}, 1)

NextEdit ==
    \/ \E u \in {"u1"}, text \in EditTexts :
        \/ cmd_logout(u, text)
        \/ cmd_edit_deal(u, text)
        \/ process_deal_value(u, text)
        \/ cmd_edit_task(u, text)
        \/ process_task_value(u, text)
        \/ cmd_edit_lead(u, text)
        \/ process_lead_value(u, text)
    \/ \E u \in {"u1"}, cb \in EditPressed :
        \/ process_deal_field(u, cb)
        \/ process_task_field(u, cb)
        \/ process_lead_field(u, cb)

SpecEdit == InitEdit /\ [][NextEdit]_vars

\* the input of a validating step fails the constraint of its field:
\* a non-numeric amount, a deadline that is not a date, a priority, status
\* or probability outside its range, a non-numeric user id
InvalidInput(st, d, text) ==
    LET field == Get(d, "field", AtomV("")).s[1]
        value == Strip(text)
    IN  CASE st \in {"DealCreationStates:waiting_amount", "QuickDealStates:waiting_amount"} ->
               ~FloatOk(Replace(text, <<",">>, <<".">>))
          [] st = "TaskCreationStates:waiting_deadline" ->
               value # <<>> /\ ~StrptimeOk(value)
          [] st = "DealEditStates:waiting_value" ->
               field \in {"OPPORTUNITY", "PROBABILITY"} /\ ~DealValue(field, value).ok
          [] st = "TaskEditStates:waiting_value" ->
               /\ field \in {"PRIORITY", "STATUS", "DEADLINE", "RESPONSIBLE_ID"}
               /\ ~TaskValue(field, value).ok
          [] st = "LeadEditStates:waiting_value" ->
               field = "ASSIGNED_BY_ID" /\ ~LeadValue(field, value).ok
          [] st = "TaskReassignStates:waiting_responsible" -> ~IntOk(value)
          [] OTHER -> FALSE

\* the run is the step registered for the state the user was in
IsStepRun(r) ==
    /\ r.handler = Dispatch(r.from, r.text)
    /\ HandlerNamed(r.handler).kind = "state"

\* C6: when the input of a step fails its field constraint, the session
\* keeps its state and its collected fields and no CRM request is issued,
\* so that a later valid input is taken by the same step
C6_ValidationFailureKeepsStep ==
    [][(/\ runs' # runs
        /\ IsStepRun(runs'[Len(runs')])
        /\ InvalidInput(fsmState[runs'[Len(runs')].user], fsmData[runs'[Len(runs')].user],
                        runs'[Len(runs')].text))
        => LET r == runs'[Len(runs')]
           IN  /\ fsmState'[r.user] = fsmState[r.user]
               /\ fsmData'[r.user] = fsmData[r.user]
               /\ CrmCalls(r) = <<>>]_vars

\* the replies that reject an input for a validation error
ValidationReplies ==
    {"malformed webhook", "enter a correct amount", "wrong date format",
     "enter a number from 0 to 100", "probability must be from 0 to 100",
     "enter 1, 2 or 3", "priority must be 1, 2 or 3", "enter 1, 2, 3 or 5",
     "status must be 1, 2, 3 or 5", "enter a numeric user id", "enter a user id"}

\* C7: a handler run that rejects an input for a validation error makes no
\* network request at all, neither to the credential store nor to the CRM
C7_ValidationIsLocal ==
    (/\ runs # <<>>
     /\ \E i \in 1..Len(LastRun.replies) : LastRun.replies[i] \in ValidationReplies)
    => LastRun.nets = <<>>

\* the entity a value step edits
EditedEntity ==
    [process_deal_value |-> "deal", process_task_value |-> "task",
     process_lead_value |-> "lead"]

CommentMethods == {CommentMethod(e) : e \in {"deal", "task", "lead"}}

UpdateMethods == {UpdateMethod(e) : e \in {"deal", "task", "lead"}}

\* C10: in the deal, task and lead edit flows the value step of the comment
\* field, once it has the webhook, issues exactly one add-comment request
\* for that entity and never an update request; the value step of any other
\* field issues no add-comment request
C10_CommentShortCircuit ==
    [][(runs' # runs /\ runs'[Len(runs')].handler \in DOMAIN EditedEntity)
        => LET r == runs'[Len(runs')]
               field == FieldOf(r.user)
               calls == CrmCalls(r)
           IN  /\ (field = "COMMENTS" /\ r.nets # <<>> /\ r.nets[1].outcome = "ok")
                    => /\ Len(calls) = 1
                       /\ calls[1].method = CommentMethod(EditedEntity[r.handler])
                       /\ calls[1].fields = [COMMENT |-> StrV(Strip(r.text))]
               /\ field = "COMMENTS"
                    => \A i \in 1..Len(calls) : calls[i].method \notin UpdateMethods
               /\ field # "COMMENTS"
                    => \A i \in 1..Len(calls) : calls[i].method \notin CommentMethods]_vars

\* C10 happens: a value step has sent a comment of a task
C10_Witness ==
    /\ runs # <<>>
    /\ LastRun.handler = "process_task_value"
    /\ Len(CrmCalls(LastRun)) = 1
    /\ CrmCalls(LastRun)[1].method = "tasks.task.comment.add"
    /\ CrmCalls(LastRun)[1].outcome = "ok"

-----------------------------------------------------------------------------
(* Specification of two linked users whose deal creations interleave       *)

IsoUsers == {"u1", "u2"}

IsoTexts == {T_CreateDeal, T_Ivan, T_100}

InitIso == InitWith(IsoUsers, {Linked}, 1)

NextIso ==
    \/ \E u \in IsoUsers, text \in IsoTexts :
        \/ cmd_create_deal(u, text)
        \/ process_deal_title(u, text)
        \/ process_deal_amount(u, text)
        \/ process_deal_contact(u, text)
    \/ \E u \in IsoUsers, cb \in StagePressed :
        process_deal_stage(u, cb)

SpecIso == InitIso /\ [][NextIso]_vars

\* C2: a handler run changes the session (state and collected fields) of
\* the user it runs for and of no other user, whatever the interleaving of
\* the two users' messages and callbacks
C2_SessionIsolation ==
    [][\A b \in IsoUsers :
          (fsmState'[b] # fsmState[b] \/ fsmData'[b] # fsmData[b])
            => (runs' # <<>> /\ runs'[Len(runs')].user = b)]_vars

\* C2 happens: both users are in the middle of a deal creation, at different
\* steps and with different titles
C2_Witness ==
    /\ fsmState["u1"] = "DealCreationStates:waiting_contact"
    /\ fsmState["u2"] = "DealCreationStates:waiting_amount"
    /\ fsmData["u1"].title = StrV(T_Ivan)
    /\ fsmData["u2"].title = StrV(T_100)
    /\ runs # <<>>
    /\ LastRun.user = "u2"

-----------------------------------------------------------------------------
(* Specification of polling: dp.start_polling(bot) hands every update to a *)
(* task of its own, so the handlers of one user's messages interleave at   *)
(* their awaits (the credential store, the CRM, message.answer).  The lead *)
(* creation handlers are split at those awaits.                            *)

MaxUpdates == 6

\* how many updates may be in processing at once
MaxPending == 2

TaskTexts == {T_CreateLead, T_Ivan}

InitTasks == InitWith({"u1"}, {Linked}, 1)

\* a task that the polling loop has created for an update
NewTask(u, text) ==
    [user |-> u, text |-> text, pc |-> "new", handler |-> "", user_data |-> NoData,
     nets |-> <<>>, replies |-> <<>>, next |-> ""]

Without(seq, i) == SubSeq(seq, 1, i - 1) \o SubSeq(seq, i + 1, Len(seq))

\* the state a lead creation step moves to, its data key and its prompt
LeadStep ==
    [cmd_create_lead |->
        [key |-> "", next |-> "LeadCreationStates:waiting_name", prompt |-> "enter lead name"],
     process_lead_name |->
        [key |-> "name", next |-> "LeadCreationStates:waiting_phone",
         prompt |-> "enter lead phone"],
     process_lead_phone |->
        [key |-> "phone", next |-> "LeadCreationStates:waiting_source",
         prompt |-> "enter lead source"],
     process_lead_source |->
        [key |-> "source", next |-> "LeadCreationStates:waiting_title",
         prompt |-> "enter lead title"]]

\* the polling loop receives an update and creates the task that handles it
poll_update(u, text) ==
    /\ inbox < MaxUpdates
    /\ Len(tasks) < MaxPending
    /\ tasks' = Append(tasks, NewTask(u, text))
    /\ inbox' = inbox + 1
    /\ UNCHANGED <<fsmState, fsmData, stored, keyboards, runs, window, clients, active, apiCall, apiResult>>

\* a task starts (tasks start in the order of their creation): the handler
\* is chosen from the user's state at this moment and runs up to its first
\* await
task_start(i) ==
    /\ i <= Len(tasks)
    /\ tasks[i].pc = "new"
    /\ \A j \in 1..(i - 1) : tasks[j].pc # "new"
    /\ LET u == tasks[i].user
           text == tasks[i].text
           h == Dispatch(State(u), text)
       IN  CASE h = "unhandled" ->
                  /\ tasks' = Without(tasks, i)
                  /\ UNCHANGED fsmData
             [] h = "cmd_create_lead" ->
                  /\ tasks' = [tasks EXCEPT ![i].pc = "fetch", ![i].handler = h]
                  /\ UNCHANGED fsmData
             [] h \in {"process_lead_name", "process_lead_phone", "process_lead_source"} ->
                  /\ fsmData' = [fsmData EXCEPT
                                   ![StorageKey(u)] = Put(@, LeadStep[h].key, StrV(text))]
                  /\ tasks' = [tasks EXCEPT ![i].pc = "answer", ![i].handler = h,
                                            ![i].replies = <<LeadStep[h].prompt>>,
                                            ![i].next = LeadStep[h].next]
             [] h = "process_lead_title" ->
                  /\ fsmData' = [fsmData EXCEPT ![StorageKey(u)] = Put(@, "title", StrV(text))]
                  /\ tasks' = [tasks EXCEPT ![i].pc = "fetch", ![i].handler = h,
                                            ![i].user_data = Put(Data(u), "title", StrV(text))]
    /\ UNCHANGED <<fsmState, stored, keyboards, runs, window, inbox, clients, active, apiCall, apiResult>>

\* the credential store answers the request of a task
task_fetched(i) ==
    /\ i <= Len(tasks)
    /\ tasks[i].pc = "fetch"
    /\ \E g \in get_bitrix_webhook(tasks[i].user) :
         LET t == [tasks[i] EXCEPT !.nets = <<g.net>>, !.pc = "answer"]
         IN  IF t.handler = "cmd_create_lead"
             THEN IF check_bitrix_connected(g.data)
                  THEN tasks' = [tasks EXCEPT ![i] =
                                   [t EXCEPT !.replies = <<LeadStep[t.handler].prompt>>,
                                             !.next = LeadStep[t.handler].next]]
                  ELSE tasks' = [tasks EXCEPT ![i] = [t EXCEPT !.replies = <<"not linked">>]]
             ELSE IF g.data.ok
                  THEN tasks' = [tasks EXCEPT ![i] =
                          [t EXCEPT !.pc = "crm",
                                    !.nets = <<g.net,
                                               Net("crm", "crm.lead.add", <<>>,
                                                   WithAssigned(g.data, "ASSIGNED_BY_ID",
                                                                LeadFields(t.user_data)),
                                                   "pending")>>]]
                  ELSE tasks' = [tasks EXCEPT ![i] =
                          [t EXCEPT !.replies = <<"error: TypeError">>, !.next = "clear"]]
    /\ UNCHANGED <<fsmState, fsmData, stored, keyboards, runs, window, inbox, clients, active, apiCall, apiResult>>

\* the CRM answers the request of a task
task_crm_done(i) ==
    /\ i <= Len(tasks)
    /\ tasks[i].pc = "crm"
    /\ \E o \in CrmOutcomes :
         tasks' = [tasks EXCEPT
                     ![i].pc = "answer",
                     ![i].nets[2].outcome = o,
                     ![i].replies = <<IF o = "ok" THEN "lead created" ELSE ErrReply(o)>>,
                     ![i].next = "clear"]
    /\ UNCHANGED <<fsmState, fsmData, stored, keyboards, runs, window, inbox, clients, active, apiCall, apiResult>>

\* message.answer returns: the handler makes its last change to the session
\* (set_state or clear) and the task ends
task_answered(i) ==
    /\ i <= Len(tasks)
    /\ tasks[i].pc = "answer"
    /\ LET u == tasks[i].user
           next == tasks[i].next
       IN  /\ fsmState' = IF next = "" THEN fsmState
                          ELSE [fsmState EXCEPT
                                  ![StorageKey(u)] = IF next = "clear" THEN NoState ELSE next]
           /\ fsmData' = IF next = "clear" THEN [fsmData EXCEPT ![StorageKey(u)] = NoData]
                         ELSE fsmData
           /\ runs' = <<[user |-> u, handler |-> tasks[i].handler, text |-> tasks[i].text,
                         from |-> fsmState[StorageKey(u)], nets |-> tasks[i].nets,
                         replies |-> tasks[i].replies]>>
    /\ tasks' = Without(tasks, i)
    /\ UNCHANGED <<stored, keyboards, window, inbox, clients, active, apiCall, apiResult>>

NextTasks ==
    \/ \E u \in {"u1"}, text \in TaskTexts : poll_update(u, text)
    \/ \E i \in 1..MaxPending :
        \/ task_start(i)
        \/ task_fetched(i)
        \/ task_crm_done(i)
        \/ task_answered(i)

SpecTasks == InitTasks /\ [][NextTasks]_vars

\* the handler of the task has started
Started(t) == t.pc # "new"

\* C3: the messages of one user are handled strictly in arrival order: the
\* handler of a message does not start while the handler of an earlier
\* message of the same user has not completed, so two runs of the terminal
\* step never both issue a create request
C3_PerUserOrdering ==
    \A i, j \in 1..Len(tasks) :
        (i < j /\ tasks[i].user = tasks[j].user)
            => /\ ~Started(tasks[j])
               /\ ~(/\ tasks[i].handler = "process_lead_title"
                    /\ tasks[j].handler = "process_lead_title"
                    /\ CrmCalls(tasks[i]) # <<>>
                    /\ CrmCalls(tasks[j]) # <<>>)

-----------------------------------------------------------------------------
(* Specification of the task flows of one linked user: creation with the   *)
(* priority keyboard, and reassignment                                     *)

TaskFlowTexts == {T_CreateTask, T_ReassignTask7, T_abc, T_2, T_Date}

\* the priority buttons the user presses
PriorityPressed == {[prefix |-> "priority_", value |-> v] : v \in {"1", "3"}}

InitTaskFlow == InitWith({"u1"}, {Linked}, 1)

NextTaskFlow ==
    \/ \E u \in {"u1"}, text \in TaskFlowTexts :
        \/ cmd_create_task(u, text)
        \/ process_task_title(u, text)
        \/ process_task_description(u, text)
        \/ process_task_deadline(u, text)
        \/ cmd_reassign_task(u, text)
        \/ process_task_responsible(u, text)
    \/ \E u \in {"u1"}, cb \in PriorityPressed :
        process_task_priority(u, cb)

SpecTaskFlow == InitTaskFlow /\ [][NextTaskFlow]_vars

-----------------------------------------------------------------------------
(* Specification of the flows that end with one CRM request, for one       *)
(* linked user: comment, lead status, contact creation                     *)

TerminalTexts == {T_CommentTask7, T_LeadStatus7, T_CreateContact, T_100}

StatusPressed == {[prefix |-> "leadstatus_", value |-> "NEW"]}

InitTerminal == InitWith({"u1"}, {Linked}, 1)

NextTerminal ==
    \/ \E u \in {"u1"}, text \in TerminalTexts :
        \/ cmd_add_comment(u, text)
        \/ process_comment_text(u, text)
        \/ cmd_change_lead_status(u, text)
        \/ process_lead_status_input(u, text)
        \/ cmd_create_contact(u, text)
        \/ process_contact_first_name(u, text)
        \/ process_contact_last_name(u, text)
        \/ process_contact_phone(u, text)
        \/ process_contact_email(u, text)
    \/ \E u \in {"u1"}, cb \in StatusPressed :
        process_lead_status_selection(u, cb)

SpecTerminal == InitTerminal /\ [][NextTerminal]_vars

\* the ways a CRM request fails: error payload, transport failure, timeout
FailureOutcomes == {"api_error", "network", "timeout"}

\* the run made a CRM request that failed
CrmFailed(r) ==
    \E i \in 1..Len(CrmCalls(r)) : CrmCalls(r)[i].outcome \in FailureOutcomes

\* C11: after a terminal step whose CRM request failed with an API error, a
\* network error or a timeout, the user got the error reply and the session
\* is idle with no collected fields
C11_TerminalErrorClearsSession ==
    (/\ runs # <<>>
     /\ LastRun.handler \in TerminalHandlers
     /\ CrmFailed(LastRun))
    => /\ LastRun.replies =
            <<ErrReply(CrmCalls(LastRun)[Len(CrmCalls(LastRun))].outcome)>>
       /\ fsmState[LastRun.user] = NoState
       /\ fsmData[LastRun.user] = NoData

\* a comment step with collected fields has just failed at the CRM
C11_Witness ==
    /\ runs # <<>>
    /\ LastRun.handler = "process_comment_text"
    /\ LastRun.from = "CommentStates:waiting_comment"
    /\ CrmFailed(LastRun)
    /\ CrmCalls(LastRun)[1].outcome = "timeout"
    /\ fsmState[LastRun.user] = NoState

\* the requests a handler run sent to the CRM, the connectivity probe included
Outbound(r) == SelectSeq(r.nets, LAMBDA n : n.svc \in {"crm", "probe"})

\* C12: within one handler run no CRM request is sent twice, and a request
\* that ended in a transport failure or a timeout is the last one of the run
C12_NoAutomaticRetry ==
    \A k \in 1..Len(runs) :
       LET c == Outbound(runs[k])
       IN  /\ \A i, j \in 1..Len(c) :
                i # j => c[i].method # c[j].method \/ c[i].id # c[j].id
           /\ \A i \in 1..Len(c) :
                c[i].outcome \in {"network", "timeout"} => i = Len(c)

\* the lead lookup of the status command timed out; the status list, which
\* follows it on success, was not requested
C12_Witness ==
    /\ runs # <<>>
    /\ LastRun.handler = "cmd_change_lead_status"
    /\ Len(Outbound(LastRun)) = 1
    /\ Outbound(LastRun)[1].outcome = "timeout"

-----------------------------------------------------------------------------
(* The BitrixAPIClient objects of the handlers, followed line by line.     *)
(* Every handler that talks to the CRM has the shape                       *)
(*     webhook_data = await backend_client.get_bitrix_webhook()            *)
(*     try:                                                                *)
(*         async with BitrixAPIClient(webhook_data[...], ...) as bitrix:   *)
(*             ... validation with `return`, requests ...                  *)
(*     except Exception as e: ...                                          *)
(* and the handlers run as concurrent tasks                                *)

\* how many handler activations are followed
MaxHandled == 3

\* how many of them run at the same time
MaxConcurrent == 2

\* the handlers followed and the CRM requests each makes when all succeed
SessionHandlers ==
    [process_lead_title |-> 1, process_task_deadline |-> 1, cmd_change_lead_status |-> 2]

\* process_task_deadline checks the date inside the `async with` block
ValidatesInside(h) == h = "process_task_deadline"

InitSession ==
    /\ InitWith({"u1"}, {Linked}, 1)

\* a handler is started and has fetched the webhook (None when there is none)
handler_begin(h, linked) ==
    /\ Len(active) < MaxHandled
    /\ Cardinality({i \in 1..Len(active) : active[i].pc # "done"}) < MaxConcurrent
    /\ active' = Append(active, [handler |-> h, pc |-> "fetched", webhook |-> linked,
                                 client |-> 0, left |-> SessionHandlers[h],
                                 exit |-> "none"])
    /\ UNCHANGED <<clients, botVars, apiVars>>

\* BitrixAPIClient.__init__: session = None; without webhook data the
\* subscript raises TypeError before a client exists
client_init(i) ==
    /\ i <= Len(active)
    /\ active[i].pc = "fetched"
    /\ IF active[i].webhook
       THEN /\ clients' = Append(clients, [session |-> "none"])
            /\ active' = [active EXCEPT ![i].pc = "constructed",
                                        ![i].client = Len(clients) + 1]
       ELSE /\ active' = [active EXCEPT ![i].pc = "done", ![i].exit = "TypeError"]
            /\ UNCHANGED clients
    /\ UNCHANGED <<botVars, apiVars>>

\* BitrixAPIClient.__aenter__
aenter(i) ==
    /\ i <= Len(active)
    /\ active[i].pc = "constructed"
    /\ clients' = [clients EXCEPT ![active[i].client].session = "open"]
    /\ active' = [active EXCEPT ![i].pc = IF ValidatesInside(active[i].handler)
                                          THEN "validating" ELSE "requesting"]
    /\ UNCHANGED <<botVars, apiVars>>

\* the date check of process_task_deadline: a bad date answers and returns
validate(i) ==
    /\ i <= Len(active)
    /\ active[i].pc = "validating"
    /\ \E good \in BOOLEAN :
         active' = IF good THEN [active EXCEPT ![i].pc = "requesting"]
                   ELSE [active EXCEPT ![i].pc = "exiting", ![i].exit = "return"]
    /\ UNCHANGED <<clients, botVars, apiVars>>

\* BitrixAPIClient._make_request: a session is created if there is none; the
\* request returns or raises
make_request(i) ==
    /\ i <= Len(active)
    /\ active[i].pc = "requesting"
    /\ clients' = [clients EXCEPT ![active[i].client].session =
                       IF @ = "none" THEN "open" ELSE @]
    /\ \E o \in CrmOutcomes :
         active' = IF o # "ok"
                   THEN [active EXCEPT ![i].pc = "exiting", ![i].exit = "exception"]
                   ELSE IF active[i].left > 1
                   THEN [active EXCEPT ![i].left = @ - 1]
                   ELSE [active EXCEPT ![i].left = 0, ![i].pc = "exiting",
                                       ![i].exit = "normal"]
    /\ UNCHANGED <<botVars, apiVars>>

\* an __aexit__ that leaves the session as it is
aexit_leak(i) ==
    /\ i <= Len(active)
    /\ active[i].pc = "exiting"
    /\ active' = [active EXCEPT ![i].pc = "done"]
    /\ UNCHANGED <<clients, botVars, apiVars>>

\* BitrixAPIClient.__aexit__, run when the `async with` block is left by its
\* end, by `return` or by an exception
aexit(i) ==
    /\ i <= Len(active)
    /\ active[i].pc = "exiting"
    /\ clients' = [clients EXCEPT ![active[i].client].session =
                       IF @ # "none" THEN "closed" ELSE @]
    /\ active' = [active EXCEPT ![i].pc = "done"]
    /\ UNCHANGED <<botVars, apiVars>>

NextSession ==
    \/ \E h \in DOMAIN SessionHandlers, linked \in BOOLEAN : handler_begin(h, linked)
    \/ \E i \in 1..MaxHandled :
        \/ client_init(i)
        \/ aenter(i)
        \/ validate(i)
        \/ make_request(i)
        \/ aexit(i)

SpecSession == InitSession /\ [][NextSession]_vars

\* C13: the CRM session of a handler that has finished is closed, whatever
\* way the handler left its `async with` block; when every handler has
\* finished no CRM session is open
C13_ConnectionRelease ==
    /\ \A i \in 1..Len(active) :
          (active[i].pc = "done" /\ active[i].client # 0)
          => clients[active[i].client].session = "closed"
    /\ (\A i \in 1..Len(active) : active[i].pc = "done")
       => \A c \in 1..Len(clients) : clients[c].session # "open"

\* three handlers have finished, one by the end of the block, one by the
\* early return on a bad date and one by an exception
C13_Witness ==
    /\ Len(active) = MaxHandled
    /\ \A i \in 1..Len(active) : active[i].pc = "done"
    /\ \A e \in {"normal", "return", "exception"} :
          \E i \in 1..Len(active) : active[i].exit = e /\ active[i].client # 0

-----------------------------------------------------------------------------
(* BitrixAPIClient methods, one call at a time.  A client is the record    *)
(* [user_id]; process_webhook only stores webhooks whose user id is not    *)
(* empty, so the clients of the handlers have one                          *)

BitrixAPIClient(user_id) == [user_id |-> user_id]

\* get_deals / get_leads: the scope key is written into the caller's filter
ScopedList(self, method, filter_params, select) ==
    LET f == IF self.user_id # <<>>
             THEN Put(filter_params, "ASSIGNED_BY_ID", StrV(self.user_id))
             ELSE filter_params
    IN  [method |-> method, filter |-> f, hasFilter |-> DOMAIN f # {}, select |-> select]

get_deals(self, filter_params) ==
    ScopedList(self, "crm.deal.list", filter_params,
               {"ID", "TITLE", "STAGE_ID", "OPPORTUNITY", "ASSIGNED_BY_ID", "DATE_CREATE"})

get_leads(self, filter_params) ==
    ScopedList(self, "crm.lead.list", filter_params,
               {"ID", "TITLE", "STATUS_ID", "SOURCE_ID", "ASSIGNED_BY_ID", "DATE_CREATE"})

\* dict.update: the keys of `other` replace those of `d`
Update(d, other) ==
    [x \in (DOMAIN d) \cup (DOMAIN other) |-> IF x \in DOMAIN other THEN other[x] ELSE d[x]]

\* get_tasks, the request: the scope filter is built first (int(user_id), or
\* the string when that fails) and the caller's filter is merged over it
TasksRequest(self, filter_params) ==
    LET scope == IF self.user_id # <<>>
                 THEN [RESPONSIBLE_ID |-> IF IntOk(self.user_id)
                                          THEN IntV(IntVal(self.user_id))
                                          ELSE StrV(self.user_id)]
                 ELSE <<>>
        f == IF DOMAIN filter_params # {} THEN Update(scope, filter_params) ELSE scope
    IN  [method |-> "tasks.task.list", filter |-> f, hasFilter |-> DOMAIN f # {},
         select |-> {"ID", "TITLE", "STATUS", "DEADLINE", "PRIORITY", "RESPONSIBLE_ID",
                     "CREATED_DATE", "DESCRIPTION"}]

\* create_lead / create_deal / create_task, the request
create_lead(self, fields) ==
    [method |-> "crm.lead.add", fields |-> WithAssigned(self, "ASSIGNED_BY_ID", fields)]

create_deal(self, fields) ==
    [method |-> "crm.deal.add", fields |-> WithAssigned(self, "ASSIGNED_BY_ID", fields)]

create_task(self, fields) ==
    [method |-> "tasks.task.add", fields |-> WithAssigned(self, "RESPONSIBLE_ID", fields)]

\* what tasks.task.list / tasks.task.get answer: the outcome of _make_request
\* and, for a JSON result, whether it has 'result' and the vendor records
Response(outcome, task_list) == [outcome |-> outcome, tasks |-> task_list]

\* get_tasks, the record built from one vendor task
NormalizedListTask(task) ==
    [ID |-> Get(task, "id", NoneVal),
     TITLE |-> Get(task, "title", NoneVal),
     STATUS |-> Get(task, "status", NoneVal),
     DEADLINE |-> Get(task, "deadline", NoneVal),
     PRIORITY |-> Get(task, "priority", NoneVal),
     RESPONSIBLE_ID |-> Get(task, "responsibleId", NoneVal),
     CREATED_DATE |-> Get(task, "createdDate", NoneVal),
     DESCRIPTION |-> Get(task, "description", NoneVal)]

\* get_task, the record built from the vendor task
NormalizedTask(task) ==
    [ID |-> Get(task, "id", NoneVal),
     TITLE |-> Get(task, "title", NoneVal),
     STATUS |-> Get(task, "status", NoneVal),
     DEADLINE |-> Get(task, "deadline", NoneVal),
     PRIORITY |-> Get(task, "priority", NoneVal),
     RESPONSIBLE_ID |-> Get(task, "responsibleId", NoneVal),
     CREATED_BY |-> Get(task, "createdBy", NoneVal),
     CREATED_DATE |-> Get(task, "createdDate", NoneVal),
     DESCRIPTION |-> Get(task, "description", NoneVal),
     CHANGED_DATE |-> Get(task, "changedDate", NoneVal)]

\* get_tasks: the request and what is returned to the caller: {'tasks': [...]}
\* for a result, the raw answer when it has no 'result', and
\* {'error': ..., 'tasks': []} when _make_request raised
get_tasks(self, filter_params, response) ==
    LET request == TasksRequest(self, filter_params)
        returned ==
            CASE response.outcome = "ok" ->
                   [hasTasks |-> TRUE, error |-> FALSE,
                    tasks |-> [i \in 1..Len(response.tasks) |->
                                  NormalizedListTask(response.tasks[i])]]
              [] response.outcome = "no_result" ->
                   [hasTasks |-> FALSE, error |-> FALSE, tasks |-> <<>>]
              [] OTHER ->
                   [hasTasks |-> TRUE, error |-> TRUE, tasks |-> <<>>]
    IN  [method |-> request.method, filter |-> request.filter,
         hasFilter |-> request.hasFilter, select |-> request.select,
         returned |-> returned]

\* get_task: {'result': record} when the answer has result.task, the raw
\* answer when it has not, {'error': ...} when _make_request raised
get_task(self, task_id, response) ==
    CASE response.outcome = "ok" /\ Len(response.tasks) = 1 ->
           [method |-> "tasks.task.get", taskId |-> task_id, hasResult |-> TRUE,
            error |-> FALSE, result |-> NormalizedTask(response.tasks[1])]
      [] response.outcome \in {"ok", "no_result"} ->
           [method |-> "tasks.task.get", taskId |-> task_id, hasResult |-> FALSE,
            error |-> FALSE, result |-> <<>>]
      [] OTHER ->
           [method |-> "tasks.task.get", taskId |-> task_id, hasResult |-> FALSE,
            error |-> TRUE, result |-> <<>>]

\* s[:n]
Prefix(s, n) == SubSeq(s, 1, IF Len(s) < n THEN Len(s) ELSE n)

\* datetime.strptime(s, '%Y-%m-%d') < now, for a now later than midnight:
\* the date is today or earlier
DateBefore(s, now) ==
    LET a == Split(s, "-")
        b == Split(now, "-")
        y == DigitsVal(a[1])
        m == DigitsVal(a[2])
        d == DigitsVal(a[3])
        ny == DigitsVal(b[1])
        nm == DigitsVal(b[2])
        nd == DigitsVal(b[3])
    IN  \/ y < ny
        \/ y = ny /\ m < nm
        \/ y = ny /\ m = nm /\ d <= nd

\* get_task_statistics: int(task.get('STATUS', '1')), 1 when that fails
TaskStatus(task) ==
    LET status_str == Get(task, "STATUS", StrV(<<"1">>))
    IN  IF status_str.t = "int" THEN status_str.n
        ELSE IF status_str.t = "str" /\ IntOk(status_str.s) THEN IntVal(status_str.s)
        ELSE 1

\* statistics that read the deadline under the key get_tasks writes
task_deadline_normalized(task) == Get(task, "DEADLINE", NoneVal)

\* get_task_statistics: deadline = task.get('deadline')
task_deadline(task) == Get(task, "deadline", NoneVal)

\* get_task_statistics: closed_date = task.get('closedDate')
task_closed_date(task) == Get(task, "closedDate", NoneVal)

\* get_task_statistics: is_overdue; a deadline that cannot be sliced or
\* parsed is caught and leaves the flag False
IsOverdue(task, now) ==
    LET deadline == task_deadline(task)
        closed_date == task_closed_date(task)
    IN  /\ Truthy(deadline)
        /\ deadline.t = "str"
        /\ StrptimeOk(Prefix(deadline.s, 10))
        /\ DateBefore(Prefix(deadline.s, 10), now)
        /\ ~Truthy(closed_date)

NoStats ==
    [total |-> 0, completed |-> 0, in_progress |-> 0, overdue |-> 0, pending |-> 0,
     deferred |-> 0, awaiting_control |-> 0, supposedly_completed |-> 0]

\* get_task_statistics, one turn of the loop: total, the counter of the
\* status (none for an overdue status 2) and overdue
CountTask(stats, task, now) ==
    LET status == TaskStatus(task)
        is_overdue == IsOverdue(task, now)
        counter == CASE status = 5 -> "completed"
                     [] status = 3 -> "in_progress"
                     [] status = 2 -> IF is_overdue THEN "overdue" ELSE "pending"
                     [] status = 6 -> "deferred"
                     [] status = 4 -> "awaiting_control"
                     [] OTHER -> "pending"
        and_overdue == is_overdue /\ status \notin {5, 2}
    IN  [k \in DOMAIN stats |->
            stats[k] + (IF k = "total" THEN 1 ELSE 0)
                     + (IF k = counter THEN 1 ELSE 0)
                     + (IF k = "overdue" /\ and_overdue THEN 1 ELSE 0)]

RECURSIVE CountTasks(_, _, _)
CountTasks(stats, task_list, now) ==
    IF task_list = <<>> THEN stats
    ELSE CountTasks(CountTask(stats, Head(task_list), now), Tail(task_list), now)

\* get_task_statistics: the tasks of get_tasks({'RESPONSIBLE_ID': user_id}),
\* counted when the answer has 'tasks'
get_task_statistics(self, response, now) ==
    LET filter_params == IF self.user_id # <<>>
                         THEN [RESPONSIBLE_ID |-> StrV(self.user_id)]
                         ELSE <<>>
        answer == get_tasks(self, filter_params, response).returned
    IN  IF answer.hasTasks THEN CountTasks(NoStats, answer.tasks, now) ELSE NoStats

RECURSIVE Pow10(_)
Pow10(k) == IF k = 0 THEN 1 ELSE 10 * Pow10(k - 1)

\* total += amount for int and float operands: the sum is a float as soon
\* as one operand is, and is kept as mantissa and number of decimals
Plus(total, amount) ==
    LET e == IF total.e > amount.e THEN total.e ELSE amount.e
    IN  [t |-> IF "float" \in {total.t, amount.t} THEN "float" ELSE "int",
         s |-> <<>>,
         n |-> total.n * Pow10(e - total.e) + amount.n * Pow10(e - amount.e),
         e |-> e]

\* a sum that reads deal['OPPORTUNITY'] as a number whatever it holds
AddDealStrict(total, deal) ==
    LET found == Get(deal, "OPPORTUNITY", NoneVal)
    IN  IF found.t \in {"int", "float"} THEN Plus(total, found)
        ELSE IF found.t = "str" /\ FloatOk(found.s) THEN Plus(total, FloatV(found.s))
        ELSE total

\* calculate_deals_sum, one turn of the loop:
\* amount = deal.get('OPPORTUNITY') or 0, added when it is an int or a float
AddDeal(total, deal) ==
    LET found == Get(deal, "OPPORTUNITY", NoneVal)
        amount == IF Truthy(found) THEN found ELSE IntV(0)
    IN  IF amount.t \in {"int", "float"} THEN Plus(total, amount) ELSE total

RECURSIVE SumDeals(_, _)
SumDeals(total, deals) ==
    IF deals = <<>> THEN total
    ELSE SumDeals(AddDeal(total, Head(deals)), Tail(deals))

\* calculate_deals_sum over the 'result' of get_deal_report
calculate_deals_sum(self, deals) == SumDeals(IntV(0), deals)

\* the user ids of the webhooks: numeric ones and one that is not a number
ApiUserIds == {<<"1">>, <<"1", "0">>, <<"a", "b">>}

\* caller filters and caller fields: every choice of keys and values
ApiKeys == {"ASSIGNED_BY_ID", "RESPONSIBLE_ID", ">=DATE_CREATE"}

ApiValues == {StrV(<<"1">>), StrV(<<"9">>)}

ApiDicts == UNION {[S -> ApiValues] : S \in SUBSET ApiKeys}

\* the vendor's task records: every status, no deadline, one long past and
\* one far ahead, with and without a closed date
PastDeadline == <<"2","0","2","0","-","0","1","-","0","1","T","0","0",":","0","0",":","0","0","+","0","3",":","0","0">>

FutureDeadline == <<"2","0","9","9","-","1","2","-","3","1","T","0","0",":","0","0",":","0","0","+","0","3",":","0","0">>

ClosedDate == <<"2","0","2","0","-","0","1","-","0","2","T","1","0",":","0","0",":","0","0","+","0","3",":","0","0">>

VendorTask(status, deadline, closedDate) ==
    [x \in {"id", "title", "status", "priority", "responsibleId", "createdDate",
            "description", "createdBy", "changedDate"}
           \cup (IF deadline = <<>> THEN {} ELSE {"deadline"})
           \cup (IF closedDate = <<>> THEN {} ELSE {"closedDate"}) |->
        CASE x = "id" -> StrV(<<"7">>)
          [] x = "title" -> StrV(<<"t">>)
          [] x = "status" -> StrV(status)
          [] x = "priority" -> StrV(<<"1">>)
          [] x = "responsibleId" -> StrV(<<"1">>)
          [] x = "createdDate" -> StrV(ClosedDate)
          [] x = "description" -> StrV(<<>>)
          [] x = "createdBy" -> StrV(<<"9">>)
          [] x = "changedDate" -> StrV(ClosedDate)
          [] x = "deadline" -> StrV(deadline)
          [] x = "closedDate" -> StrV(closedDate)]

VendorStatuses == {<<"1">>, <<"2">>, <<"3">>, <<"4">>, <<"5">>, <<"6">>, <<"7">>}

VendorTasks ==
    {VendorTask(status, deadline, closedDate) :
        status \in VendorStatuses,
        deadline \in {<<>>, PastDeadline, FutureDeadline},
        closedDate \in {<<>>, ClosedDate}}

\* records for the normalization: a whole one, one with an id only, an empty one
VendorShapes ==
    {VendorTask(<<"3">>, PastDeadline, <<>>), [id |-> StrV(<<"7">>)], <<>>}

\* the sequences over S of at most n elements
SeqsUpTo(S, n) == UNION {[1..k -> S] : k \in 0..n}

MaxTasks == 2

MaxDeals == 3

\* the answers that are not a list of records
NoAnswers == {Response(o, <<>>) : o \in {"no_result", "api_error", "network", "timeout"}}

ListResponses == {Response("ok", l) : l \in SeqsUpTo(VendorShapes, MaxTasks)} \cup NoAnswers

TaskResponses == {Response("ok", <<t>>) : t \in VendorShapes} \cup NoAnswers

StatResponses == {Response("ok", l) : l \in SeqsUpTo(VendorTasks, MaxTasks)} \cup NoAnswers

\* datetime.now(), the date of it
Nows == {<<"2","0","2","0","-","0","1","-","0","2">>, <<"2","0","2","6","-","1","1","-","0","1">>}

\* the deals of a report: OPPORTUNITY absent, null, an int, a float, a text,
\* a number as text
Deals ==
    {<<>>, [OPPORTUNITY |-> NoneVal], [OPPORTUNITY |-> IntV(100)],
     [OPPORTUNITY |-> FloatV(<<"1", ".", "5">>)], [OPPORTUNITY |-> StrV(<<"b", "a", "d">>)],
     [OPPORTUNITY |-> StrV(<<"1", "0", "0", ".", "0", "0">>)]}

\* a call: the method, the client's user id and the argument
Called(op, user_id, arg) == [op |-> op, user_id |-> user_id, arg |-> arg]

\* the client was made for the call and has not been used
Fresh == apiCall.op = "none"

call_get_deals ==
    /\ Fresh
    /\ \E user_id \in ApiUserIds, filter_params \in ApiDicts :
          /\ apiCall' = Called("get_deals", user_id, filter_params)
          /\ apiResult' = get_deals(BitrixAPIClient(user_id), filter_params)
    /\ UNCHANGED <<botVars, clients, active>>

call_get_leads ==
    /\ Fresh
    /\ \E user_id \in ApiUserIds, filter_params \in ApiDicts :
          /\ apiCall' = Called("get_leads", user_id, filter_params)
          /\ apiResult' = get_leads(BitrixAPIClient(user_id), filter_params)
    /\ UNCHANGED <<botVars, clients, active>>

call_get_tasks ==
    /\ Fresh
    /\ \E user_id \in ApiUserIds, filter_params \in ApiDicts, response \in ListResponses :
          /\ apiCall' = [op |-> "get_tasks", user_id |-> user_id, arg |-> filter_params,
                         response |-> response]
          /\ apiResult' = get_tasks(BitrixAPIClient(user_id), filter_params, response)
    /\ UNCHANGED <<botVars, clients, active>>

call_get_task ==
    /\ Fresh
    /\ \E user_id \in ApiUserIds, response \in TaskResponses :
          /\ apiCall' = [op |-> "get_task", user_id |-> user_id, arg |-> <<"7">>,
                         response |-> response]
          /\ apiResult' = get_task(BitrixAPIClient(user_id), <<"7">>, response)
    /\ UNCHANGED <<botVars, clients, active>>

call_get_task_statistics ==
    /\ Fresh
    /\ \E user_id \in ApiUserIds, response \in StatResponses, now \in Nows :
          /\ apiCall' = [op |-> "get_task_statistics", user_id |-> user_id, now |-> now,
                         response |-> response]
          /\ apiResult' = get_task_statistics(BitrixAPIClient(user_id), response, now)
    /\ UNCHANGED <<botVars, clients, active>>

call_calculate_deals_sum ==
    /\ Fresh
    /\ \E user_id \in ApiUserIds, deals \in SeqsUpTo(Deals, MaxDeals) :
          /\ apiCall' = Called("calculate_deals_sum", user_id, deals)
          /\ apiResult' = [total |-> calculate_deals_sum(BitrixAPIClient(user_id), deals)]
    /\ UNCHANGED <<botVars, clients, active>>

call_create_lead ==
    /\ Fresh
    /\ \E user_id \in ApiUserIds, fields \in ApiDicts :
          /\ apiCall' = Called("create_lead", user_id, fields)
          /\ apiResult' = create_lead(BitrixAPIClient(user_id), fields)
    /\ UNCHANGED <<botVars, clients, active>>

call_create_deal ==
    /\ Fresh
    /\ \E user_id \in ApiUserIds, fields \in ApiDicts :
          /\ apiCall' = Called("create_deal", user_id, fields)
          /\ apiResult' = create_deal(BitrixAPIClient(user_id), fields)
    /\ UNCHANGED <<botVars, clients, active>>

call_create_task ==
    /\ Fresh
    /\ \E user_id \in ApiUserIds, fields \in ApiDicts :
          /\ apiCall' = Called("create_task", user_id, fields)
          /\ apiResult' = create_task(BitrixAPIClient(user_id), fields)
    /\ UNCHANGED <<botVars, clients, active>>

\* the `async with` block of the handler ends and the client is dropped
client_exit ==
    /\ ~Fresh
    /\ apiCall' = [op |-> "none"]
    /\ apiResult' = [op |-> "none"]
    /\ UNCHANGED <<botVars, clients, active>>

InitApi ==
    /\ InitWith({"u1"}, {Linked}, 1)

NextApi ==
    \/ call_get_deals
    \/ call_get_leads
    \/ call_get_tasks
    \/ call_get_task
    \/ call_get_task_statistics
    \/ call_calculate_deals_sum
    \/ call_create_lead
    \/ call_create_deal
    \/ call_create_task
    \/ client_exit

SpecApi == InitApi /\ [][NextApi]_vars

\* the key that scopes a list, the key that names the responsible of a create
ScopeKey(op) ==
    IF op \in {"get_tasks", "create_task"} THEN "RESPONSIBLE_ID" ELSE "ASSIGNED_BY_ID"

\* the value is the user id, as a string or as the number it spells
SameId(v, user_id) ==
    \/ v.t = "str" /\ v.s = user_id
    \/ v.t = "int" /\ IntOk(user_id) /\ v.n = IntVal(user_id)

\* C14: the filter a list call sends has the scope key equal to the webhook's
\* user id, whatever the caller's filter holds, and keeps every other key of
\* the caller's filter with its value
C14_ListScoping ==
    apiCall.op \in {"get_deals", "get_leads", "get_tasks"}
    => LET k == ScopeKey(apiCall.op)
           f == apiResult.filter
       IN  /\ apiResult.hasFilter
           /\ k \in DOMAIN f
           /\ SameId(f[k], apiCall.user_id)
           /\ \A x \in (DOMAIN apiCall.arg) \ {k} :
                 x \in DOMAIN f /\ f[x] = apiCall.arg[x]

\* C15: a create call sends the responsible key equal to the webhook's user id
\* when the caller's fields lack it, the caller's value when they have it,
\* and every other field of the caller unchanged and nothing else
C15_ResponsibleInjection ==
    apiCall.op \in {"create_lead", "create_deal", "create_task"}
    => LET k == ScopeKey(apiCall.op)
           sent == apiResult.fields
       IN  /\ DOMAIN sent = (DOMAIN apiCall.arg) \cup {k}
           /\ sent[k] = IF k \in DOMAIN apiCall.arg THEN apiCall.arg[k]
                        ELSE StrV(apiCall.user_id)
           /\ \A x \in (DOMAIN apiCall.arg) \ {k} : sent[x] = apiCall.arg[x]

\* create_task was called with a responsible that is not the webhook's user
C15_Witness ==
    /\ apiCall.op = "create_task"
    /\ apiCall.user_id = <<"1">>
    /\ "RESPONSIBLE_ID" \in DOMAIN apiCall.arg
    /\ apiCall.arg["RESPONSIBLE_ID"] = StrV(<<"9">>)
    /\ apiResult.fields["RESPONSIBLE_ID"] = StrV(<<"9">>)

\* the five counters of the partition
Buckets == {"completed", "in_progress", "pending", "deferred", "awaiting_control"}

FiveBuckets(stats) ==
    stats.completed + stats.in_progress + stats.pending + stats.deferred
        + stats.awaiting_control

\* the vendor task has status 7
IsRejected(task) == "status" \in DOMAIN task /\ task["status"] = StrV(<<"7">>)

NotRejected(task) == ~IsRejected(task)

\* statistics were computed over an answer of tasks.task.list
StatisticsOver == apiCall.op = "get_task_statistics" /\ apiCall.response.outcome = "ok"

\* C16: the statistics of any task list have total equal to the sum of the
\* five buckets completed, in_progress, pending, deferred, awaiting_control;
\* when no task is rejected the five buckets together count every task once,
\* and a single task that is not rejected is in exactly one of them
C16_StatisticsPartition ==
    StatisticsOver
    => LET l == apiCall.response.tasks
       IN  /\ apiResult.total = FiveBuckets(apiResult)
           /\ (\A i \in 1..Len(l) : NotRejected(l[i])) => FiveBuckets(apiResult) = Len(l)
           /\ (Len(l) = 1 /\ NotRejected(l[1]))
              => /\ \A k \in Buckets : apiResult[k] \in {0, 1}
                 /\ Cardinality({k \in Buckets : apiResult[k] = 1}) = 1

\* a task waiting to be done whose deadline has passed and a finished task
\* were counted: one pending, one completed
C16_Witness ==
    /\ StatisticsOver
    /\ apiCall.response.tasks = <<VendorTask(<<"2">>, PastDeadline, <<>>),
                                  VendorTask(<<"5">>, <<>>, ClosedDate)>>
    /\ apiResult.total = 2
    /\ apiResult.pending = 1
    /\ apiResult.completed = 1

\* C17: rejected tasks (status 7) are not counted: the statistics of a task
\* list are those of the list without its rejected tasks, total included
C17_RejectedNotCounted ==
    StatisticsOver
    => apiResult = get_task_statistics(
                       BitrixAPIClient(apiCall.user_id),
                       Response("ok", SelectSeq(apiCall.response.tasks, NotRejected)),
                       apiCall.now)

\* the task is in progress (status 3) with a deadline before now
InProgressPastDeadline(task) ==
    /\ "status" \in DOMAIN task /\ task["status"] = StrV(<<"3">>)
    /\ "deadline" \in DOMAIN task /\ task["deadline"] = StrV(PastDeadline)

\* C18: a task with status 3, a deadline whose date is before now and no
\* closed date is counted in overdue; the same task with a closed date is not
C18_OverdueFlag ==
    (StatisticsOver /\ Len(apiCall.response.tasks) = 1
        /\ InProgressPastDeadline(apiCall.response.tasks[1]))
    => apiResult.overdue = IF "closedDate" \in DOMAIN apiCall.response.tasks[1]
                           THEN 0 ELSE 1

\* the OPPORTUNITY of a deal in hundredths when it is a number, 0 otherwise
Hundredths(deal) ==
    IF "OPPORTUNITY" \in DOMAIN deal /\ deal["OPPORTUNITY"].t \in {"int", "float"}
    THEN deal["OPPORTUNITY"].n * Pow10(2 - deal["OPPORTUNITY"].e)
    ELSE 0

RECURSIVE SumHundredths(_)
SumHundredths(deals) ==
    IF deals = <<>> THEN 0 ELSE Hundredths(Head(deals)) + SumHundredths(Tail(deals))

\* the deals of the example: 100, null, "bad"
ExampleDeals ==
    <<[OPPORTUNITY |-> IntV(100)], [OPPORTUNITY |-> NoneVal],
      [OPPORTUNITY |-> StrV(<<"b", "a", "d">>)]>>

\* C19: the sum of the deals is a number equal to the sum of the OPPORTUNITY
\* values that are numbers, the missing, null and non-numeric ones counting
\* as 0; for the deals 100, null, "bad" it is 100
C19_SumDeals ==
    apiCall.op = "calculate_deals_sum"
    => /\ apiResult.total.t \in {"int", "float"}
       /\ apiResult.total.n * Pow10(2 - apiResult.total.e) = SumHundredths(apiCall.arg)
       /\ apiCall.arg = ExampleDeals => apiResult.total = IntV(100)

\* the deals 100, null, "bad" were summed
C19_Witness ==
    /\ apiCall.op = "calculate_deals_sum"
    /\ apiCall.arg = ExampleDeals
    /\ apiResult.total = IntV(100)

\* the canonical keys and the vendor field each of them holds
CanonicalKeys ==
    {"ID", "TITLE", "STATUS", "DEADLINE", "PRIORITY", "RESPONSIBLE_ID", "CREATED_DATE",
     "DESCRIPTION", "CHANGED_DATE", "CREATED_BY"}

VendorField(k) ==
    CASE k = "ID" -> "id"
      [] k = "TITLE" -> "title"
      [] k = "STATUS" -> "status"
      [] k = "DEADLINE" -> "deadline"
      [] k = "PRIORITY" -> "priority"
      [] k = "RESPONSIBLE_ID" -> "responsibleId"
      [] k = "CREATED_DATE" -> "createdDate"
      [] k = "DESCRIPTION" -> "description"
      [] k = "CHANGED_DATE" -> "changedDate"
      [] k = "CREATED_BY" -> "createdBy"

IsCanonical(record, task) ==
    /\ DOMAIN record = CanonicalKeys
    /\ \A k \in CanonicalKeys : record[k] = Get(task, VendorField(k), NoneVal)

\* C20: every record get_tasks and get_task return has exactly the ten
\* canonical keys, each with the vendor's value or null; get_tasks returns
\* one record per vendor task and does not fail on a missing field
C20_TaskNormalization ==
    /\ (apiCall.op = "get_tasks" /\ apiCall.response.outcome = "ok")
       => /\ apiResult.returned.hasTasks /\ ~apiResult.returned.error
          /\ Len(apiResult.returned.tasks) = Len(apiCall.response.tasks)
          /\ \A i \in 1..Len(apiCall.response.tasks) :
                IsCanonical(apiResult.returned.tasks[i], apiCall.response.tasks[i])
    /\ (apiCall.op = "get_task" /\ apiCall.response.outcome = "ok")
       => /\ apiResult.hasResult
          /\ IsCanonical(apiResult.result, apiCall.response.tasks[1])

-----------------------------------------------------------------------------
(* The read commands: lists and cards of deals and tasks                   *)

\* get_period_dates: a named period is counted back from today, two words
\* are taken as the two dates, anything else is today
get_period_dates(period) ==
    LET today == <<"t","o","d","a","y">>
        p == Lower(period)
    IN  CASE p = <<"t","o","d","a","y">> -> <<today, today>>
          [] p = <<"y","e","s","t","e","r","d","a","y">> -> <<today \o <<"-","1">>, today \o <<"-","1">>>>
          [] p = <<"w","e","e","k">> -> <<today \o <<"-","7">>, today>>
          [] p = <<"m","o","n","t","h">> -> <<today \o <<"-","3","0">>, today>>
          [] p = <<"q","u","a","r","t","e","r">> -> <<today \o <<"-","9","0">>, today>>
          [] OTHER -> IF Len(Split(period, " ")) = 2
                      THEN <<Split(period, " ")[1], Split(period, " ")[2]>>
                      ELSE <<today, today>>

\* the filter of cmd_my_deals / cmd_my_tasks: empty without a period
PeriodFilter(period, from_key, to_key) ==
    IF period = <<>> THEN <<>>
    ELSE [x \in {from_key, to_key} |->
            IF x = from_key THEN StrV(get_period_dates(period)[1])
            ELSE StrV(get_period_dates(period)[2])]

\* the answers of crm.deal.list / crm.deal.get: records or none
ADeal == [ID |-> StrV(<<"7">>), TITLE |-> StrV(<<"d">>)]

DealResponses == {Response("ok", <<>>), Response("ok", <<ADeal>>)} \cup NoAnswers

\* the reply to a request that raised: the text of the exception
Raised(response) == ErrReply(response.outcome)

\* cmd_my_deals: _make_request raises on an error payload, a transport
\* failure and a timeout, and the handler replies with the exception
cmd_my_deals(u, text) ==
    /\ Dispatch(State(u), text) = "cmd_my_deals"
    /\ \E g \in get_bitrix_webhook(u) :
         IF ~check_bitrix_connected(g.data)
         THEN Finish(u, "cmd_my_deals", text,
                     Out(State(u), Data(u), <<g.net>>, <<"not linked">>))
         ELSE \E response \in DealResponses :
                LET period == Strip(Replace(text, T_MyDeals, <<>>))
                    request == get_deals(BitrixAPIClient(g.data.user_id),
                                         PeriodFilter(period, ">=DATE_CREATE", "<=DATE_CREATE"))
                    nets == <<g.net, Net("crm", request.method, <<>>, request.filter,
                                         response.outcome)>>
                IN  Finish(u, "cmd_my_deals", text,
                       Out(State(u), Data(u), nets,
                           <<CASE response.outcome \in FailureOutcomes -> Raised(response)
                               [] response.outcome = "ok" /\ response.tasks # <<>> ->
                                    "your deals"
                               [] OTHER -> "no deals found">>))

\* cmd_deal_detail: get_deal lets the exception of _make_request through
cmd_deal_detail(u, text) ==
    /\ Dispatch(State(u), text) = "cmd_deal_detail"
    /\ LET deal_id == Strip(Replace(text, <<"D","e","a","l">>, <<>>))
       IN  IF deal_id = <<>>
           THEN Finish(u, "cmd_deal_detail", text,
                       Out(State(u), Data(u), <<>>, <<"give the id">>))
           ELSE \E g \in get_bitrix_webhook(u) :
                  IF ~check_bitrix_connected(g.data)
                  THEN Finish(u, "cmd_deal_detail", text,
                              Out(State(u), Data(u), <<g.net>>, <<"not linked">>))
                  ELSE \E response \in DealResponses :
                         Finish(u, "cmd_deal_detail", text,
                            Out(State(u), Data(u),
                                <<g.net, Net("crm", "crm.deal.get", deal_id, <<>>,
                                             response.outcome)>>,
                                <<IF response.outcome \in FailureOutcomes
                                  THEN Raised(response) ELSE "deal card">>))

\* cmd_my_tasks: get_tasks has caught the exception of _make_request and
\* returned {'error': ..., 'tasks': []}; the handler looks at 'tasks' only
cmd_my_tasks(u, text) ==
    /\ Dispatch(State(u), text) = "cmd_my_tasks"
    /\ \E g \in get_bitrix_webhook(u) :
         IF ~check_bitrix_connected(g.data)
         THEN Finish(u, "cmd_my_tasks", text,
                     Out(State(u), Data(u), <<g.net>>, <<"not linked">>))
         ELSE \E response \in ListResponses :
                LET period == Strip(Replace(text, T_MyTasks, <<>>))
                    result == get_tasks(BitrixAPIClient(g.data.user_id),
                                        PeriodFilter(period, ">=CREATED_DATE", "<=CREATED_DATE"),
                                        response)
                    nets == <<g.net, Net("crm", result.method, <<>>, result.filter,
                                         response.outcome)>>
                IN  Finish(u, "cmd_my_tasks", text,
                       Out(State(u), Data(u), nets,
                           <<IF ~result.returned.hasTasks \/ result.returned.tasks = <<>>
                             THEN "no tasks found" ELSE "your tasks">>))

\* the card of cmd_task_detail: each field with its default when the key is
\* absent; task.get('DESCRIPTION', ...)[:100] raises TypeError on None
TaskCard(task) ==
    IF Get(task, "DESCRIPTION", StrV(<<>>)).t = "none" THEN "error: TypeError"
    ELSE "task card"

\* cmd_task_detail: get_task has caught the exception of _make_request and
\* returned {'error': str(e)}, which has no 'error_description'
cmd_task_detail(u, text) ==
    /\ Dispatch(State(u), text) = "cmd_task_detail"
    /\ LET task_id == Strip(Replace(text, <<"T","a","s","k">>, <<>>))
       IN  IF task_id = <<>>
           THEN Finish(u, "cmd_task_detail", text,
                       Out(State(u), Data(u), <<>>, <<"give the id">>))
           ELSE \E g \in get_bitrix_webhook(u) :
                  IF ~check_bitrix_connected(g.data)
                  THEN Finish(u, "cmd_task_detail", text,
                              Out(State(u), Data(u), <<g.net>>, <<"not linked">>))
                  ELSE \E response \in TaskResponses :
                         LET result == get_task(BitrixAPIClient(g.data.user_id), task_id,
                                                response)
                             nets == <<g.net, Net("crm", result.method, task_id, <<>>,
                                                  response.outcome)>>
                         IN  Finish(u, "cmd_task_detail", text,
                                Out(State(u), Data(u), nets,
                                    <<IF result.error THEN "Bitrix24 error: unknown error"
                                      ELSE TaskCard(result.result)>>))

ReadTexts == {T_MyTasks, T_Task7, T_MyDeals, T_Deal7}

ReadWindow == 2

InitRead == InitWith({"u1"}, {Linked, NoRecord}, ReadWindow)

NextRead ==
    \E u \in {"u1"}, text \in ReadTexts :
        \/ cmd_my_deals(u, text)
        \/ cmd_deal_detail(u, text)
        \/ cmd_my_tasks(u, text)
        \/ cmd_task_detail(u, text)

SpecRead == InitRead /\ [][NextRead]_vars

\* the CRM answered a request of the run with an error payload
RemoteError(r) ==
    \E i \in 1..Len(CrmCalls(r)) : CrmCalls(r)[i].outcome = "api_error"

\* C21: whenever the CRM answered a command with an error payload, the reply
\* to the user is the failure text that carries the vendor's error
\* description, never an empty or successful result
C21_RemoteErrorsReachUser ==
    \A k \in 1..Len(runs) :
       RemoteError(runs[k]) => runs[k].replies = <<ErrReply("api_error")>>

-----------------------------------------------------------------------------
(* Specification of the credentials of two users: /auth, webhook texts,    *)
(* /logout and a read command, in any interleaving                         *)

CredUsers == {"u1", "u2"}

CredTexts == {T_Auth, T_Logout, T_Hook, T_Hook2, T_Foreign, T_MyDeals}

InitCred == InitWith(CredUsers, {NoRecord, Linked}, 1)

NextCred ==
    \E u \in CredUsers, text \in CredTexts :
        \/ cmd_auth(u, text)
        \/ process_webhook(u, text)
        \/ cmd_logout(u, text)
        \/ cmd_my_deals(u, text)

SpecCred == InitCred /\ [][NextCred]_vars

\* the store has no credential for the user: no record, or a record that
\* was disconnected
Absent(record) == ~record.exists \/ record.url = <<>>

\* the run sent the request and it succeeded
Succeeded(r, svc, method) ==
    \E i \in 1..Len(r.nets) :
        r.nets[i].svc = svc /\ r.nets[i].method = method /\ r.nets[i].outcome = "ok"

\* C22: the stored credential of a user changes only by a run of that user,
\* and only in two ways: to the submitted URL (as the store keeps it, without
\* the trailing slash) by a webhook step whose URL passed validate, whose
\* connectivity test succeeded and whose save succeeded, and to absent by
\* /logout; every other run leaves every credential as it was
C22_CredentialLifecycle ==
    [][\A b \in CredUsers :
          stored'[b] # stored[b]
            => /\ runs' # <<>>
               /\ LET r == runs'[Len(runs')]
                  IN  /\ r.user = b
                      /\ \/ /\ r.handler = "process_webhook"
                            /\ validate_webhook_url(Strip(r.text))
                            /\ Succeeded(r, "probe", "user.current")
                            /\ Succeeded(r, "store", "POST")
                            /\ stored'[b].exists
                            /\ stored'[b].url = RStripCh(Strip(r.text), "/")
                         \/ /\ r.handler = "cmd_logout"
                            /\ Absent(stored'[b])]_vars

\* the first user has linked a second webhook over the first one while the
\* other user's credential stayed
C22_Witness ==
    /\ runs # <<>>
    /\ LastRun.user = "u1"
    /\ LastRun.handler = "process_webhook"
    /\ stored["u1"].url = RStripCh(T_Hook2, "/")
    /\ stored["u2"] = Linked

-----------------------------------------------------------------------------
(* WebhookParser on URLs built from a host, path segments and an optional  *)
(* trailing slash                                                          *)

VendorHost == <<"a",".","b","i","t","r","i","x","2","4",".","r","u">>

ForeignHost == <<"e","v","i","l",".","c","o","m">>

Segments == {<<"r","e","s","t">>, <<"a","p","i">>, <<"1">>, <<"a","b","c","d","e","f">>}

MaxSegments == 4

RECURSIVE JoinPath(_)
JoinPath(segs) ==
    IF segs = <<>> THEN <<>> ELSE <<"/">> \o Head(segs) \o JoinPath(Tail(segs))

UrlOf(host, segs, slash) ==
    <<"h","t","t","p","s">> \o SchemeSep \o host \o JoinPath(segs)
        \o (IF slash THEN <<"/">> ELSE <<>>)

call_parse_webhook_url ==
    /\ Fresh
    /\ \E host \in {VendorHost, ForeignHost}, segs \in SeqsUpTo(Segments, MaxSegments),
          slash \in BOOLEAN :
          /\ apiCall' = [op |-> "parse_webhook_url", arg |-> UrlOf(host, segs, slash),
                         host |-> host, segs |-> segs]
          /\ apiResult' = parse_webhook_url(UrlOf(host, segs, slash))
    /\ UNCHANGED <<botVars, clients, active>>

call_validate_webhook_url ==
    /\ Fresh
    /\ \E host \in {VendorHost, ForeignHost}, segs \in SeqsUpTo(Segments, MaxSegments),
          slash \in BOOLEAN :
          /\ apiCall' = [op |-> "validate_webhook_url", arg |-> UrlOf(host, segs, slash),
                         host |-> host, segs |-> segs]
          /\ apiResult' = [valid |-> validate_webhook_url(UrlOf(host, segs, slash))]
    /\ UNCHANGED <<botVars, clients, active>>

InitParse == InitWith({"u1"}, {Linked}, 1)

NextParse ==
    \/ call_parse_webhook_url
    \/ call_validate_webhook_url

SpecParse == InitParse /\ [][NextParse]_vars

\* C23: parse fails when the path has fewer than 3 segments or does not
\* start with 'rest'; for rest/{userId}/{token} followed by any segments it
\* succeeds with the user id and the token of segments 2 and 3
C23_ParseRejectsMalformedPaths ==
    apiCall.op = "parse_webhook_url"
    => IF Len(apiCall.segs) < 3 \/ apiCall.segs[1] # <<"r","e","s","t">>
       THEN ~apiResult.ok
       ELSE /\ apiResult.ok
            /\ apiResult.user_id = apiCall.segs[2]
            /\ apiResult.webhook_token = apiCall.segs[3]

\* a webhook URL followed by one more segment and a slash was parsed
C23_Witness ==
    /\ apiCall.op = "parse_webhook_url"
    /\ apiCall.arg = UrlOf(VendorHost, <<<<"r","e","s","t">>, <<"1">>,
                                         <<"a","b","c","d","e","f">>, <<"a","p","i">>>>, TRUE)
    /\ apiResult.ok
    /\ apiResult.user_id = <<"1">>
    /\ apiResult.webhook_token = <<"a","b","c","d","e","f">>

\* C24: parse fails for every URL whose host does not contain '.bitrix24.',
\* whatever its path
C24_ParseRejectsForeignHosts ==
    (apiCall.op = "parse_webhook_url"
        /\ ~Contains(apiCall.host, <<".","b","i","t","r","i","x","2","4",".">>))
    => ~apiResult.ok

-----------------------------------------------------------------------------
(* BitrixAPIClient._mask_sensitive_data and the request of _make_request.  *)
(* A JSON value is tagged: a text, a number, a mapping from keys (texts)   *)
(* to values, a sequence of values                                         *)

JStr(s) == [k |-> "str", v |-> s]

JNum(n) == [k |-> "num", v |-> n]

JDict(f) == [k |-> "dict", v |-> f]

JList(l) == [k |-> "list", v |-> l]

Stars == <<"*","*","*">>

sensitive_fields ==
    {<<"a","u","t","h">>, <<"t","o","k","e","n">>, <<"p","a","s","s","w","o","r","d">>, <<"s","e","c","r","e","t">>, <<"k","e","y">>, <<"a","c","c","e","s","s","_","t","o","k","e","n">>}

\* any(sensitive in str(key).lower() for sensitive in sensitive_fields)
IsSensitive(key) == \E sensitive \in sensitive_fields : Contains(Lower(key), sensitive)

\* s[-n:]
Suffix(s, n) == SubSeq(s, IF Len(s) < n THEN 1 ELSE Len(s) - n + 1, Len(s))

\* mask_value: the items of a sequence
mask_value(value) ==
    IF value.k = "str" /\ Len(value.v) > 8
    THEN JStr(Prefix(value.v, 4) \o Stars \o Suffix(value.v, 4))
    ELSE IF value.k = "num" THEN value
    ELSE JStr(Stars)

\* a mask_dict that writes the masked values into the mapping it was given;
\* `logged` is the mapping returned, `after` the mapping the caller holds
RECURSIVE mask_dict_in_place(_)
mask_dict_in_place(d) ==
    LET masked(key) ==
            LET value == d[key]
            IN  CASE value.k = "dict" -> JDict(mask_dict_in_place(value.v).logged)
                  [] value.k = "list" ->
                       JList([i \in 1..Len(value.v) |->
                                IF value.v[i].k = "dict"
                                THEN JDict(mask_dict_in_place(value.v[i].v).logged)
                                ELSE mask_value(value.v[i])])
                  [] IsSensitive(key) -> JStr(Stars)
                  [] value.k = "str" /\ Len(value.v) > 20 ->
                       JStr(Prefix(value.v, 10) \o <<".",".",".">> \o Suffix(value.v, 10))
                  [] OTHER -> value
    IN  [logged |-> [key \in DOMAIN d |-> masked(key)],
         after |-> [key \in DOMAIN d |-> masked(key)]]

\* mask_dict: a new mapping is filled key by key, a mapping is masked by a
\* recursive call, the items of a sequence by mask_dict or mask_value, and
\* only then the key is looked at; nothing is written into d
RECURSIVE mask_dict(_)
mask_dict(d) ==
    LET masked(key) ==
            LET value == d[key]
            IN  CASE value.k = "dict" -> JDict(mask_dict(value.v).logged)
                  [] value.k = "list" ->
                       JList([i \in 1..Len(value.v) |->
                                IF value.v[i].k = "dict"
                                THEN JDict(mask_dict(value.v[i].v).logged)
                                ELSE mask_value(value.v[i])])
                  [] IsSensitive(key) -> JStr(Stars)
                  [] value.k = "str" /\ Len(value.v) > 20 ->
                       JStr(Prefix(value.v, 10) \o <<".",".",".">> \o Suffix(value.v, 10))
                  [] OTHER -> value
        kept(key) ==
            LET value == d[key]
            IN  CASE value.k = "dict" -> JDict(mask_dict(value.v).after)
                  [] value.k = "list" ->
                       JList([i \in 1..Len(value.v) |->
                                IF value.v[i].k = "dict"
                                THEN JDict(mask_dict(value.v[i].v).after)
                                ELSE value.v[i]])
                  [] OTHER -> value
    IN  [logged |-> [key \in DOMAIN d |-> masked(key)],
         after |-> [key \in DOMAIN d |-> kept(key)]]

\* _mask_sensitive_data: nothing to mask in an empty mapping
mask_sensitive_data(data) ==
    IF DOMAIN data = {} THEN [logged |-> data, after |-> data] ELSE mask_dict(data)

\* _make_request up to the POST: the parameters are masked for the log line
\* when there are any, then the caller's mapping is posted as the JSON body
RequestOf(params) ==
    LET m == mask_sensitive_data(params)
    IN  [logs |-> IF DOMAIN params = {} THEN <<>> ELSE <<m.logged>>,
         posted |-> m.after]

\* parameter values: a short text, a secret, a long text, a number
Secret == <<"s","e","c","r","e","t","1","2","3","4","5","6">>

LongNote == <<"a","a","a","a","a","a","a","a","a","a","a","a","a","a","a","a","a","a","a","a","a","a","a","a","a","a","a","a","a","a">>

Scalars == {JStr(<<"a","b">>), JStr(Secret), JStr(LongNote), JNum(5)}

ParamKeys == {<<"a","u","t","h">>, <<"n","o","t","e">>}

MaxItems == 2

\* a mapping of the keys to scalars, a sequence of scalars and of one mapping
InnerDicts == UNION {[S -> Scalars] : S \in (SUBSET ParamKeys) \ {{}}}

InnerLists ==
    {JList(l) : l \in SeqsUpTo(Scalars \cup {JDict([x \in {<<"a","u","t","h">>} |-> JStr(Secret)])},
                               MaxItems) \ {<<>>}}

ParamValues == Scalars \cup {JDict(f) : f \in InnerDicts} \cup InnerLists

call_make_request ==
    /\ Fresh
    /\ \E S \in SUBSET ParamKeys : \E params \in [S -> ParamValues] :
          /\ apiCall' = [op |-> "_make_request", arg |-> params]
          /\ apiResult' = RequestOf(params)
    /\ UNCHANGED <<botVars, clients, active>>

InitMask == InitWith({"u1"}, {Linked}, 1)

NextMask == call_make_request

SpecMask == InitMask /\ [][NextMask]_vars

\* every sensitive key of the mapping, at any depth, is logged as "***"
RECURSIVE SensitiveMasked(_, _)
SensitiveMasked(params, logged) ==
    \A key \in DOMAIN params :
       IF IsSensitive(key) THEN logged[key] = JStr(Stars)
       ELSE CASE params[key].k = "dict" ->
                   /\ logged[key].k = "dict"
                   /\ SensitiveMasked(params[key].v, logged[key].v)
              [] params[key].k = "list" ->
                   /\ logged[key].k = "list"
                   /\ \A i \in 1..Len(params[key].v) :
                         params[key].v[i].k = "dict"
                           => /\ logged[key].v[i].k = "dict"
                              /\ SensitiveMasked(params[key].v[i].v, logged[key].v[i].v)
              [] OTHER -> TRUE

ExampleParams ==
    [x \in ParamKeys |-> IF x = <<"a","u","t","h">> THEN JStr(Secret) ELSE JStr(LongNote)]

\* C25: in the logged copy of the parameters every key that matches the
\* sensitive set, at any depth, has the value "***" whatever its value was;
\* {auth: "secret123456", note: 30 x "a"} is logged as
\* {auth: "***", note: "aaaaaaaaaa...aaaaaaaaaa"}
C25_SensitiveKeysMasked ==
    (apiCall.op = "_make_request" /\ DOMAIN apiCall.arg # {})
    => /\ Len(apiResult.logs) = 1
       /\ SensitiveMasked(apiCall.arg, apiResult.logs[1])
       /\ apiCall.arg = ExampleParams
          => apiResult.logs[1] =
               [x \in ParamKeys |->
                   IF x = <<"a","u","t","h">> THEN JStr(Stars)
                   ELSE JStr(Prefix(LongNote, 10) \o <<".",".",".">> \o Suffix(LongNote, 10))]

\* C26: the body posted to the CRM is the mapping the caller passed, equal
\* at every level, whatever was masked for the log
C26_MaskingLeavesRequest ==
    apiCall.op = "_make_request" => apiResult.posted = apiCall.arg

\* a request with a secret at the top and a long text inside a nested
\* mapping was logged masked and posted as it was
C26_Witness ==
    /\ apiCall.op = "_make_request"
    /\ apiCall.arg = [x \in ParamKeys |->
                        IF x = <<"a","u","t","h">> THEN JStr(Secret)
                        ELSE JDict([y \in {<<"n","o","t","e">>} |-> JStr(LongNote)])]
    /\ apiResult.logs # <<>>
    /\ apiResult.logs[1] # apiCall.arg
    /\ apiResult.posted = apiCall.arg

-----------------------------------------------------------------------------
(* The log lines written for a webhook.  The URL is built from a token     *)
(* over letters that occur nowhere else in the line.                       *)

\* BitrixAPIClient._mask_webhook_url on self.webhook_url (right slashes
\* stripped by __init__): the third path part is masked when there is one
mask_webhook_url(webhook_url) ==
    LET url == RStripCh(webhook_url, "/")
        parsed == UrlParse(url)
        path_parts == PathParts(url)
        masked_token == IF Len(path_parts[3]) > 4
                        THEN Prefix(path_parts[3], 4) \o Stars
                        ELSE Stars
        masked_parts == IF Len(path_parts) >= 3
                        THEN [path_parts EXCEPT ![3] = masked_token]
                        ELSE path_parts
    IN  parsed.scheme \o SchemeSep \o parsed.netloc \o JoinPath(masked_parts)

\* masked_url of save_bitrix_webhook, test_bitrix_connection, process_webhook
\* and cmd_status: the first 4 characters and "***" for every token that is
\* not empty
MaskedUrl(webhook_data) ==
    LET masked_token == IF webhook_data.webhook_token # <<>>
                        THEN Prefix(webhook_data.webhook_token, 4) \o Stars
                        ELSE Stars
    IN  webhook_data.portal_url \o <<"/","r","e","s","t","/">> \o webhook_data.user_id
           \o <<"/">> \o masked_token \o <<"/">>

MaxToken == 5

Tokens == SeqsUpTo({"j", "z"}, MaxToken) \ {<<>>}

HookOf(token, slash) == UrlOf(VendorHost, <<<<"r","e","s","t">>, <<"1">>, token>>, slash)

\* _make_request: "Bitrix24 API request: {self.masked_url}/{method}"
log_make_request ==
    /\ Fresh
    /\ \E token \in Tokens, slash \in BOOLEAN :
          /\ apiCall' = [op |-> "_make_request", token |-> token, slash |-> slash]
          /\ apiResult' = [line |-> mask_webhook_url(HookOf(token, slash))
                                       \o <<"/","u","s","e","r",".","g","e","t">>]
    /\ UNCHANGED <<botVars, clients, active>>

log_save_bitrix_webhook ==
    /\ Fresh
    /\ \E token \in Tokens, slash \in BOOLEAN :
          /\ apiCall' = [op |-> "save_bitrix_webhook", token |-> token, slash |-> slash]
          /\ apiResult' = [line |-> MaskedUrl(parse_webhook_url(HookOf(token, slash)))]
    /\ UNCHANGED <<botVars, clients, active>>

log_test_bitrix_connection ==
    /\ Fresh
    /\ \E token \in Tokens, slash \in BOOLEAN :
          /\ apiCall' = [op |-> "test_bitrix_connection", token |-> token, slash |-> slash]
          /\ apiResult' = [line |-> MaskedUrl(parse_webhook_url(HookOf(token, slash)))]
    /\ UNCHANGED <<botVars, clients, active>>

\* process_webhook after validate_webhook_url accepted the text
log_process_webhook ==
    /\ Fresh
    /\ \E token \in Tokens, slash \in BOOLEAN :
          /\ validate_webhook_url(HookOf(token, slash))
          /\ apiCall' = [op |-> "process_webhook", token |-> token, slash |-> slash]
          /\ apiResult' = [line |-> MaskedUrl(parse_webhook_url(HookOf(token, slash)))]
    /\ UNCHANGED <<botVars, clients, active>>

\* cmd_status on the descriptor get_bitrix_webhook parsed from the store
log_cmd_status ==
    /\ Fresh
    /\ \E token \in Tokens, slash \in BOOLEAN :
          /\ apiCall' = [op |-> "cmd_status", token |-> token, slash |-> slash]
          /\ apiResult' = [line |-> MaskedUrl(parse_webhook_url(HookOf(token, slash)))]
    /\ UNCHANGED <<botVars, clients, active>>

InitLog == InitWith({"u1"}, {Linked}, 1)

NextLog ==
    \/ log_make_request
    \/ log_save_bitrix_webhook
    \/ log_test_bitrix_connection
    \/ log_process_webhook
    \/ log_cmd_status

SpecLog == InitLog /\ [][NextLog]_vars

Logged == apiCall.op \in {"_make_request", "save_bitrix_webhook", "test_bitrix_connection",
                          "process_webhook", "cmd_status"}

\* C27: a log line written for a webhook shows the token as its first 4
\* characters and "***" when it is longer than 4 characters, as "***" alone
\* when it has at most 4, and never holds the whole token
C27_NoRawTokenInLog ==
    Logged =>
       /\ Contains(apiResult.line,
                   <<"/">> \o (IF Len(apiCall.token) > 4
                               THEN Prefix(apiCall.token, 4) \o Stars
                               ELSE Stars))
       /\ ~Contains(apiResult.line, apiCall.token)

\* the request line of BitrixAPIClient alone masks as stated
C27_RequestLineMasked ==
    apiCall.op = "_make_request" =>
       /\ Contains(apiResult.line,
                   <<"/">> \o (IF Len(apiCall.token) > 4
                               THEN Prefix(apiCall.token, 4) \o Stars
                               ELSE Stars))
       /\ ~Contains(apiResult.line, apiCall.token)

-----------------------------------------------------------------------------
(* The error texts a failed CRM request and a failed connectivity probe    *)
(* send to the user.  The text of a transport error is str(e) of the HTTP  *)
(* client library: a connection error names the host, a response that is   *)
(* not JSON (an HTML error page of a gateway) raises ContentTypeError,     *)
(* whose text is "{status}, message='...', url='{request url}'".           *)

ClientErrorText(kind, url, status) ==
    IF kind = "connector"
    THEN <<"C","a","n","n","o","t"," ","c","o","n","n","e","c","t"," ","t","o"," ","h","o","s","t"," ">> \o UrlParse(url).netloc
    ELSE status \o <<","," ","m","e","s","s","a","g","e","=","'","u","n","e","x","p","e","c","t","e","d"," ","m","i","m","e","t","y","p","e","'",","," ","u","r","l","=","'">> \o url \o <<"'">>

Failures ==
    [kind : {"remote", "connector", "timeout", "not_json"},
     status : {<<"2","0","0">>, <<"5","0","2">>},
     description : {<<"N","o","t"," ","f","o","u","n","d">>, <<"A","c","c","e","s","s"," ","d","e","n","i","e","d">>}]

\* _make_request: the exception text for a failure of the POST to
\* {self.webhook_url}/{method}; the status of the response is not looked at
make_request_error(webhook_url, method, failure) ==
    LET url == RStripCh(webhook_url, "/") \o <<"/">> \o method
    IN  CASE failure.kind = "remote" ->
                <<"B","i","t","r","i","x","2","4"," ","A","P","I"," ","e","r","r","o","r",":"," ">> \o failure.description
          [] failure.kind = "timeout" -> <<"R","e","q","u","e","s","t"," ","t","i","m","e","o","u","t">>
          [] OTHER ->
                <<"N","e","t","w","o","r","k"," ","e","r","r","o","r",":"," ">> \o ClientErrorText(failure.kind, url, failure.status)

\* cmd_my_deals: the reply of the except branch
deals_error_reply(webhook_url, failure) ==
    <<"e","r","r","o","r"," ","g","e","t","t","i","n","g"," ","d","e","a","l","s",":"," ">>
       \o make_request_error(webhook_url, <<"c","r","m",".","d","e","a","l",".","l","i","s","t">>, failure)

\* test_bitrix_connection: the 'error' of an unsuccessful result
test_bitrix_connection_error(webhook_url, failure) ==
    LET url == RStripCh(webhook_url, "/") \o <<"/","u","s","e","r",".","c","u","r","r","e","n","t">>
    IN  CASE failure.kind = "timeout" -> <<"B","i","t","r","i","x","2","4"," ","c","o","n","n","e","c","t","i","o","n"," ","t","i","m","e","o","u","t">>
          [] failure.kind = "connector" -> ClientErrorText("connector", url, failure.status)
          [] failure.kind = "remote" /\ failure.status = <<"2","0","0">> -> failure.description
          [] failure.kind = "not_json" /\ failure.status = <<"2","0","0">> ->
                ClientErrorText("not_json", url, failure.status)
          [] OTHER -> <<"H","T","T","P"," ">> \o failure.status \o <<":"," ">>
                         \o failure.description

\* process_webhook: the reply when the probe did not succeed
probe_error_reply(webhook_url, failure) ==
    <<"c","o","n","n","e","c","t","i","o","n"," ","e","r","r","o","r",":"," ">> \o test_bitrix_connection_error(webhook_url, failure)

UserError(op, token, failure) ==
    IF op = "cmd_my_deals"
    THEN deals_error_reply(HookOf(token, FALSE), failure)
    ELSE probe_error_reply(HookOf(token, FALSE), failure)

call_failing_request ==
    /\ Fresh
    /\ \E token \in Tokens, failure \in Failures :
          /\ apiCall' = [op |-> "cmd_my_deals", token |-> token, failure |-> failure]
          /\ apiResult' = [message |-> deals_error_reply(HookOf(token, FALSE), failure)]
    /\ UNCHANGED <<botVars, clients, active>>

call_failing_probe ==
    /\ Fresh
    /\ \E token \in Tokens, failure \in Failures :
          /\ apiCall' = [op |-> "process_webhook", token |-> token, failure |-> failure]
          /\ apiResult' = [message |-> probe_error_reply(HookOf(token, FALSE), failure)]
    /\ UNCHANGED <<botVars, clients, active>>

InitErr == InitWith({"u1"}, {Linked}, 1)

NextErr == call_failing_request \/ call_failing_probe

SpecErr == InitErr /\ [][NextErr]_vars

\* C28: the error text sent to the user after a failed CRM call or probe
\* does not contain the webhook token, and is the text the same failure
\* gives with any other token
C28_NoTokenInUserErrors ==
    apiCall.op \in {"cmd_my_deals", "process_webhook"} =>
       /\ ~Contains(apiResult.message, apiCall.token)
       /\ \A other \in Tokens :
             UserError(apiCall.op, other, apiCall.failure) = apiResult.message

-----------------------------------------------------------------------------
(* format_task and the card of cmd_task_detail on the records that the     *)
(* normalization of get_task produces                                      *)

Placeholder(key) ==
    CASE key = "TITLE" -> <<"n","o"," ","t","i","t","l","e">>
      [] key = "DEADLINE" -> <<"n","o","t"," ","s","e","t">>
      [] key = "DESCRIPTION" -> <<"n","o"," ","d","e","s","c","r","i","p","t","i","o","n">>

\* f"{task.get(key, placeholder)}": the placeholder for a key that is not
\* in the record, str(None) for a key that holds None
Shown(task, key) ==
    LET value == Get(task, key, StrV(Placeholder(key)))
    IN  IF value.t = "none" THEN <<"N","o","n","e">> ELSE value.s

\* format_task (and the same expressions in cmd_task_detail):
\* task.get('DESCRIPTION', placeholder)[:100] raises TypeError on None
format_task(task) ==
    IF Get(task, "DESCRIPTION", StrV(Placeholder("DESCRIPTION"))).t = "none"
    THEN [raised |-> TRUE, shown |-> <<>>]
    ELSE [raised |-> FALSE,
          shown |-> [key \in {"TITLE", "DEADLINE", "DESCRIPTION"} |->
                        IF key = "DESCRIPTION"
                        THEN Prefix(Shown(task, key), 100) \o <<".",".",".">>
                        ELSE Shown(task, key)]]

\* vendor records in which any of the fields is absent, null or a text
VendorFields == {"id", "title", "deadline", "description"}

PartialTasks ==
    UNION {[S -> {StrV(<<"t">>), NoneVal}] : S \in SUBSET VendorFields}

call_format_task ==
    /\ Fresh
    /\ \E task \in PartialTasks :
          /\ apiCall' = [op |-> "format_task", arg |-> task]
          /\ apiResult' = format_task(
                get_task(BitrixAPIClient(<<"1">>), <<"7">>, Response("ok", <<task>>)).result)
    /\ UNCHANGED <<botVars, clients, active>>

\* cmd_task_detail: the card is built inside the try, the except replies
\* with the error text
call_task_card ==
    /\ Fresh
    /\ \E task \in PartialTasks :
          /\ apiCall' = [op |-> "cmd_task_detail", arg |-> task]
          /\ apiResult' = format_task(
                get_task(BitrixAPIClient(<<"1">>), <<"7">>, Response("ok", <<task>>)).result)
    /\ UNCHANGED <<botVars, clients, active>>

InitFormat == InitWith({"u1"}, {Linked}, 1)

NextFormat == call_format_task \/ call_task_card

SpecFormat == InitFormat /\ [][NextFormat]_vars

VendorKey(key) ==
    CASE key = "TITLE" -> "title"
      [] key = "DEADLINE" -> "deadline"
      [] key = "DESCRIPTION" -> "description"

\* C29: formatting a normalized task in which any fields are absent or null
\* does not raise and shows the placeholder for each such field
C29_PresentationToleratesMissing ==
    apiCall.op \in {"format_task", "cmd_task_detail"} =>
       /\ ~apiResult.raised
       /\ \A key \in {"TITLE", "DEADLINE"} :
             Get(apiCall.arg, VendorKey(key), NoneVal).t = "none"
                => apiResult.shown[key] = Placeholder(key)
       /\ Get(apiCall.arg, "description", NoneVal).t = "none"
             => apiResult.shown["DESCRIPTION"]
                   = Placeholder("DESCRIPTION") \o <<".",".",".">>

\* formatting does not raise when the vendor record has a description
C29_FormatsWithDescription ==
    (/\ apiCall.op \in {"format_task", "cmd_task_detail"}
     /\ Get(apiCall.arg, "description", NoneVal).t # "none")
    => ~apiResult.raised

-----------------------------------------------------------------------------
(* The shape of the flows: the states of each StatesGroup in the order of  *)
(* their declaration                                                       *)

StepList ==
    [AuthStates |->
        <<"AuthStates:waiting_webhook">>,
     LeadCreationStates |->
        <<"LeadCreationStates:waiting_name", "LeadCreationStates:waiting_phone", "LeadCreationStates:waiting_source", "LeadCreationStates:waiting_title">>,
     DealCreationStates |->
        <<"DealCreationStates:waiting_title", "DealCreationStates:waiting_stage", "DealCreationStates:waiting_amount", "DealCreationStates:waiting_contact">>,
     TaskCreationStates |->
        <<"TaskCreationStates:waiting_title", "TaskCreationStates:waiting_description", "TaskCreationStates:waiting_responsible", "TaskCreationStates:waiting_deadline", "TaskCreationStates:waiting_priority">>,
     ContactCreationStates |->
        <<"ContactCreationStates:waiting_first_name", "ContactCreationStates:waiting_last_name", "ContactCreationStates:waiting_phone", "ContactCreationStates:waiting_email">>,
     DealEditStates |->
        <<"DealEditStates:waiting_field", "DealEditStates:waiting_value">>,
     TaskEditStates |->
        <<"TaskEditStates:waiting_field", "TaskEditStates:waiting_value">>,
     LeadEditStates |->
        <<"LeadEditStates:waiting_field", "LeadEditStates:waiting_value">>,
     QuickDealStates |->
        <<"QuickDealStates:waiting_title", "QuickDealStates:waiting_amount">>,
     CommentStates |->
        <<"CommentStates:waiting_entity_type", "CommentStates:waiting_entity_id", "CommentStates:waiting_comment">>,
     TaskReassignStates |->
        <<"TaskReassignStates:waiting_task_id", "TaskReassignStates:waiting_responsible">>,
     LeadStatusStates |->
        <<"LeadStatusStates:waiting_lead_id", "LeadStatusStates:waiting_status">>]

\* a change of the session state that follows the declared step list: into
\* the first step of a flow (its trigger may come in any state), from a step
\* to the next one, or back to no state
FollowsStepList(from, to) ==
    \/ to = NoState
    \/ \E g \in DOMAIN StepList :
          \/ to = StepList[g][1]
          \/ \E k \in 1..(Len(StepList[g]) - 1) :
                from = StepList[g][k] /\ to = StepList[g][k + 1]

\* C30: every change of a user's session state enters a flow at its first
\* declared step, moves from a step to the next declared step, or returns
\* to no state; no declared step is skipped or visited out of order
C30_FlowShape ==
    [][\A u \in DOMAIN fsmState :
          fsmState'[u] # fsmState[u] => FollowsStepList(fsmState[u], fsmState'[u])]_vars

\* the declared second step of the deal creation is never the session state
WaitingStageNeverEntered ==
    \A u \in DOMAIN fsmState : fsmState[u] # "DealCreationStates:waiting_stage"

\* the declared third and fifth steps of the task creation and the declared
\* first step of the reassignment are never the session state
TaskStepsNeverEntered ==
    \A u \in DOMAIN fsmState :
       fsmState[u] \notin {"TaskCreationStates:waiting_responsible",
                           "TaskCreationStates:waiting_priority",
                           "TaskReassignStates:waiting_task_id"}

\* the lead creation, whose four steps are all entered in order, is completed
LeadFlowCompleted ==
    /\ runs # <<>>
    /\ runs[Len(runs)].handler = "process_lead_title"
    /\ runs[Len(runs)].from = "LeadCreationStates:waiting_title"
    /\ fsmState["u1"] = NoState

-----------------------------------------------------------------------------
(* The outcome of one _make_request: what the portal answered and what the *)
(* caller gets, a returned mapping or a raised exception                   *)

\* the JSON bodies: any of 'result', 'error', 'error_description'
Bodies ==
    UNION {[S -> {<<"E","1">>, <<"D","e","n","i","e","d">>}] :
              S \in SUBSET {"result", "error", "error_description"}}

\* what the POST ends with: a JSON body, a body that is not JSON, a failed
\* connection, the expiry of the 30 s timeout
Answers ==
    [kind : {"json"}, body : Bodies]
       \cup [kind : {"not_json", "connector", "timeout"}, body : {<<>>}]

\* _make_request from the POST on: every raise is a plain Exception whose
\* text is built from error_description, or from error when there is none
make_request_outcome(webhook_url, method, answer) ==
    LET url == RStripCh(webhook_url, "/") \o <<"/">> \o method
        data == answer.body
    IN  CASE answer.kind = "json" /\ "error" \notin DOMAIN data ->
               [raised |-> FALSE, type |-> "dict", message |-> <<>>, data |-> data]
          [] answer.kind = "json" ->
               [raised |-> TRUE, type |-> "Exception",
                message |-> <<"B","i","t","r","i","x","2","4"," ","A","P","I"," ","e","r","r","o","r",":"," ">>
                               \o (IF "error_description" \in DOMAIN data
                                   THEN data["error_description"] ELSE data["error"]),
                data |-> <<>>]
          [] answer.kind = "timeout" ->
               [raised |-> TRUE, type |-> "Exception",
                message |-> <<"R","e","q","u","e","s","t"," ","t","i","m","e","o","u","t">>, data |-> <<>>]
          [] OTHER ->
               [raised |-> TRUE, type |-> "Exception",
                message |-> <<"N","e","t","w","o","r","k"," ","e","r","r","o","r",":"," ">>
                               \o ClientErrorText(answer.kind, url, <<"2","0","0">>),
                data |-> <<>>]

call_request ==
    /\ Fresh
    /\ \E token \in Tokens, answer \in Answers :
          /\ apiCall' = [op |-> "request", token |-> token, answer |-> answer]
          /\ apiResult' = make_request_outcome(HookOf(token, FALSE), <<"c","r","m",".","d","e","a","l",".","l","i","s","t">>, answer)
    /\ UNCHANGED <<botVars, clients, active>>

InitOutcome == InitWith({"u1"}, {Linked}, 1)

NextOutcome == call_request

SpecOutcome == InitOutcome /\ [][NextOutcome]_vars

\* the kind of error the caller can tell from the exception
ErrorKind(outcome) ==
    CASE ~outcome.raised -> "none"
      [] StartsWith(outcome.message, <<"B","i","t","r","i","x","2","4"," ","A","P","I"," ","e","r","r","o","r",":"," ">>) -> "remote"
      [] StartsWith(outcome.message, <<"N","e","t","w","o","r","k"," ","e","r","r","o","r",":"," ">>) -> "network"
      [] outcome.message = <<"R","e","q","u","e","s","t"," ","t","i","m","e","o","u","t">> -> "timeout"
      [] OTHER -> "unknown"

\* C31: a request ends in the JSON result when the answer has no 'error',
\* in a remote error that carries the vendor's code and description when it
\* has one, in a network error on a transport failure, in a timeout error on
\* expiry; the caller can tell the three errors apart and an answer with an
\* 'error' key is never returned
C31_RequestOutcome ==
    apiCall.op = "request" =>
       LET answer == apiCall.answer
           has_error == answer.kind = "json" /\ "error" \in DOMAIN answer.body
       IN  /\ (answer.kind = "json" /\ ~has_error)
                => (~apiResult.raised /\ apiResult.data = answer.body)
           /\ has_error =>
                /\ apiResult.raised
                /\ ErrorKind(apiResult) = "remote"
                /\ Contains(apiResult.message, answer.body["error"])
                /\ "error_description" \in DOMAIN answer.body
                      => Contains(apiResult.message, answer.body["error_description"])
           /\ answer.kind \in {"connector", "not_json"} => ErrorKind(apiResult) = "network"
           /\ answer.kind = "timeout" => ErrorKind(apiResult) = "timeout"

\* the same without the vendor's code: an answer with an 'error' key is
\* raised, never returned, and the three errors have different texts
C31_OutcomeKinds ==
    apiCall.op = "request" =>
       LET answer == apiCall.answer
           has_error == answer.kind = "json" /\ "error" \in DOMAIN answer.body
       IN  /\ (answer.kind = "json" /\ ~has_error)
                => (~apiResult.raised /\ apiResult.data = answer.body)
           /\ has_error => (apiResult.raised /\ ErrorKind(apiResult) = "remote")
           /\ answer.kind \in {"connector", "not_json"} => ErrorKind(apiResult) = "network"
           /\ answer.kind = "timeout" => ErrorKind(apiResult) = "timeout"

-----------------------------------------------------------------------------
(* The log entries of one CRM call, in the order they are written; "sent"  *)
(* marks the POST and holds the body that was posted                       *)

LogEntry(entry, method, params) == [entry |-> entry, method |-> method, params |-> params]

\* _make_request: the request line, the masked parameters when there are
\* any, the POST, and one line for the outcome on each of the four paths
RequestLog(method, params, outcome) ==
    <<LogEntry("request", method, <<>>)>>
       \o (IF DOMAIN params # {}
           THEN <<LogEntry("params", method, mask_sensitive_data(params).logged)>>
           ELSE <<>>)
       \o <<LogEntry("sent", method, mask_sensitive_data(params).after)>>
       \o <<LogEntry(IF outcome = "ok" THEN "success" ELSE "failure", method, <<>>)>>

\* get_tasks: params = {'order': ..., 'select': [...]} with the scope filter
\* and the caller's filter merged over it
TasksParams(user_id, filter_params) ==
    LET scope == IF user_id # <<>>
                 THEN [x \in {<<"R","E","S","P","O","N","S","I","B","L","E","_","I","D">>} |->
                          IF IntOk(user_id) THEN JNum(IntVal(user_id)) ELSE JStr(user_id)]
                 ELSE <<>>
        f == IF DOMAIN filter_params # {}
             THEN [x \in DOMAIN scope \cup DOMAIN filter_params |->
                      IF x \in DOMAIN filter_params THEN filter_params[x] ELSE scope[x]]
             ELSE scope
    IN  [x \in {<<"o","r","d","e","r">>, <<"s","e","l","e","c","t">>}
                  \cup (IF user_id # <<>> \/ DOMAIN filter_params # {}
                        THEN {<<"f","i","l","t","e","r">>} ELSE {}) |->
            CASE x = <<"o","r","d","e","r">> -> JDict([y \in {<<"I","D">>} |-> JStr(<<"D","E","S","C">>)])
              [] x = <<"s","e","l","e","c","t">> -> JList(<<JStr(<<"I","D">>), JStr(<<"T","I","T","L","E">>), JStr(<<"D","E","S","C","R","I","P","T","I","O","N">>)>>)
              [] OTHER -> JDict(f)]

\* get_tasks: a line for the call, the parameters as they are, then the
\* request; the except branch adds a line of its own
TasksLog(user_id, filter_params, outcome) ==
    LET params == TasksParams(user_id, filter_params)
    IN  <<LogEntry("call", <<"t","a","s","k","s",".","t","a","s","k",".","l","i","s","t">>, <<>>),
          LogEntry("params", <<"t","a","s","k","s",".","t","a","s","k",".","l","i","s","t">>, params)>>
           \o RequestLog(<<"t","a","s","k","s",".","t","a","s","k",".","l","i","s","t">>, params, outcome)
           \o (IF outcome = "ok" THEN <<LogEntry("count", <<"t","a","s","k","s",".","t","a","s","k",".","l","i","s","t">>, <<>>)>>
               ELSE <<LogEntry("caller_error", <<"t","a","s","k","s",".","t","a","s","k",".","l","i","s","t">>, <<>>)>>)

TaskFilters == UNION {[S -> Scalars] : S \in SUBSET {<<"T","I","T","L","E">>, <<"t","o","k","e","n">>}}

log_request ==
    /\ Fresh
    /\ \E S \in SUBSET ParamKeys : \E params \in [S -> ParamValues] :
       \E outcome \in CrmOutcomes :
          /\ apiCall' = [op |-> "logged_request", arg |-> params, outcome |-> outcome]
          /\ apiResult' = [log |-> RequestLog(<<"c","r","m",".","d","e","a","l",".","l","i","s","t">>, params, outcome)]
    /\ UNCHANGED <<botVars, clients, active>>

log_get_tasks ==
    /\ Fresh
    /\ \E user_id \in {<<>>, <<"1">>}, filter_params \in TaskFilters, outcome \in CrmOutcomes :
          /\ apiCall' = [op |-> "get_tasks", arg |-> filter_params, outcome |-> outcome]
          /\ apiResult' = [log |-> TasksLog(user_id, filter_params, outcome)]
    /\ UNCHANGED <<botVars, clients, active>>

InitProtocol == InitWith({"u1"}, {Linked}, 1)

NextProtocol == log_request \/ log_get_tasks

SpecProtocol == InitProtocol /\ [][NextProtocol]_vars

Entries(log, kinds) == {i \in 1..Len(log) : log[i].entry \in kinds}

\* the entries before the POST name the method once and hold the masked
\* parameters when there are any; one outcome entry follows the POST
ProtocolKept(log) ==
    /\ \E s \in 1..Len(log) :
          /\ Entries(log, {"sent"}) = {s}
          /\ \E r \in 1..(s - 1) :
                /\ Entries(log, {"request"}) = {r}
                /\ log[r].method = log[s].method
          /\ DOMAIN log[s].params # {}
                => \E p \in 1..(s - 1) :
                      /\ log[p].entry = "params"
                      /\ log[p].params = mask_sensitive_data(log[s].params).logged
          /\ \E o \in (s + 1)..Len(log) : Entries(log, {"success", "failure"}) = {o}

\* every entry that holds parameters holds them masked
OnlyMasked(log) ==
    \A s \in Entries(log, {"sent"}), p \in Entries(log, {"params"}) :
       log[p].params = mask_sensitive_data(log[s].params).logged

\* C32: for every CRM call one entry with the method and the masked
\* parameters is written before the request is sent and exactly one outcome
\* entry after it, and the parameters are logged only masked, by get_tasks
\* too
C32_LoggingProtocol ==
    apiCall.op \in {"logged_request", "get_tasks"}
       => (ProtocolKept(apiResult.log) /\ OnlyMasked(apiResult.log))

\* _make_request alone keeps the protocol, and get_tasks keeps its order
C32_RequestKeepsProtocol ==
    /\ apiCall.op = "logged_request"
          => (ProtocolKept(apiResult.log) /\ OnlyMasked(apiResult.log))
    /\ apiCall.op = "get_tasks" => ProtocolKept(apiResult.log)

-----------------------------------------------------------------------------
(* The truncation of long values in the logged copy of the parameters      *)

\* value[:10] + '...' + value[-10:]
Truncated(s) == Prefix(s, 10) \o <<".",".",".">> \o Suffix(s, 10)

\* how a text under a key that is not sensitive is to be logged
LoggedText(value) == IF Len(value.v) > 20 THEN JStr(Truncated(value.v)) ELSE value

\* the texts under the keys that are not sensitive are truncated when long
\* and unchanged when short, in nested mappings and, when in_lists, as the
\* items of sequences
RECURSIVE LongValuesTruncated(_, _, _)
LongValuesTruncated(params, logged, in_lists) ==
    \A key \in DOMAIN params :
       IsSensitive(key) \/
       CASE params[key].k = "str" -> logged[key] = LoggedText(params[key])
         [] params[key].k = "dict" ->
              /\ logged[key].k = "dict"
              /\ LongValuesTruncated(params[key].v, logged[key].v, in_lists)
         [] params[key].k = "list" ->
              /\ logged[key].k = "list"
              /\ \A i \in 1..Len(params[key].v) :
                    CASE params[key].v[i].k = "dict" ->
                           /\ logged[key].v[i].k = "dict"
                           /\ LongValuesTruncated(params[key].v[i].v, logged[key].v[i].v,
                                                  in_lists)
                      [] params[key].v[i].k = "str" /\ in_lists /\ Len(params[key].v[i].v) > 20 ->
                           logged[key].v[i] = JStr(Truncated(params[key].v[i].v))
                      [] OTHER -> TRUE
         [] OTHER -> TRUE

\* C33: in the logged copy every text longer than 20 characters, at any
\* depth and as an item of a sequence too, is its first 10 characters,
\* '...' and its last 10; a text of at most 20 characters under a key that
\* is not sensitive is unchanged
C33_LongValuesTruncated ==
    (apiCall.op = "_make_request" /\ DOMAIN apiCall.arg # {})
       => LongValuesTruncated(apiCall.arg, apiResult.logs[1], TRUE)

\* the same for the values of keys only, the items of sequences left aside
C33_TruncatedUnderKeys ==
    (apiCall.op = "_make_request" /\ DOMAIN apiCall.arg # {})
       => LongValuesTruncated(apiCall.arg, apiResult.logs[1], FALSE)

-----------------------------------------------------------------------------
(* Specification of /logout followed by data commands and flow triggers    *)

Linked2 == [exists |-> TRUE, url |-> validate_full_webhook_url(T_Hook2)]

LogoutTexts ==
    {T_Logout, T_Auth, T_Hook, T_Foreign, T_MyDeals, T_Task7, T_CreateLead, T_CreateDeal,
     T_EditDeal7, T_CommentTask7}

\* the last two runs are kept
InitLogout == InitWith({"u1"}, {NoRecord, Linked, Linked2}, 2)

NextLogout ==
    \E u \in {"u1"}, text \in LogoutTexts :
        \/ cmd_logout(u, text)
        \/ cmd_auth(u, text)
        \/ process_webhook(u, text)
        \/ cmd_my_deals(u, text)
        \/ cmd_task_detail(u, text)
        \/ cmd_create_lead(u, text)
        \/ cmd_create_deal(u, text)
        \/ cmd_edit_deal(u, text)
        \/ cmd_add_comment(u, text)

SpecLogout == InitLogout /\ [][NextLogout]_vars

DataCommandsAndTriggers ==
    {"cmd_my_deals", "cmd_task_detail", "cmd_create_lead", "cmd_create_deal",
     "cmd_edit_deal", "cmd_add_comment"}

-----------------------------------------------------------------------------
(* Session data of a user who is in no flow                                *)

\* C35: a user whose session state is not set has no collected fields
C35_IdleSessionsHoldNoData ==
    \A u \in DOMAIN fsmState : fsmState[u] = NoState => fsmData[u] = NoData

-----------------------------------------------------------------------------
(* The callback handlers and the flows whose keyboards they serve          *)

ChoiceFlow ==
    [process_deal_stage |-> "DealCreationStates",
     process_task_priority |-> "TaskCreationStates",
     process_lead_status_selection |-> "LeadStatusStates",
     process_deal_field |-> "DealEditStates",
     process_task_field |-> "TaskEditStates",
     process_lead_field |-> "LeadEditStates"]

\* C36: a callback of a choice keyboard that arrives when the user is in no
\* flow or in another flow than the one of the keyboard leaves the session
\* state and the collected fields as they were and issues no CRM call
C36_CallbacksBoundToStep ==
    [][runs' # <<>> =>
         LET r == runs'[Len(runs')]
         IN  (/\ r.handler \in DOMAIN ChoiceFlow
              /\ r.from \notin StatesGroups[ChoiceFlow[r.handler]])
             => /\ fsmState' = fsmState
                /\ fsmData' = fsmData
                /\ CrmCalls(r) = <<>>]_vars

\* the callbacks registered with a state: a field_, taskfield_ or leadfield_
\* callback is handled only in the waiting_field state of its flow
C36_FieldCallbacksBound ==
    \A k \in 1..Len(runs) :
       runs[k].handler \in {"process_deal_field", "process_task_field", "process_lead_field"}
          => runs[k].from \in StatesGroups[ChoiceFlow[runs[k].handler]]

-----------------------------------------------------------------------------
(* The fields of the create requests of the deal and task creation flows   *)

\* the requests of a run that call the method
CallsOf(r, method) ==
    {i \in 1..Len(r.nets) : r.nets[i].svc = "crm" /\ r.nets[i].method = method}

\* C37: when the deal creation issues crm.deal.add, the title, stage and
\* amount are among the fields collected before the last step, and when the
\* task creation issues tasks.task.add, the title, description and priority
\* are; no create request is built from the defaults taken for a step that
\* was never visited
C37_CreateCallsCarryFlowData ==
    [][runs' # <<>> =>
         LET r == runs'[Len(runs')]
         IN  /\ (r.handler = "process_deal_contact" /\ CallsOf(r, "crm.deal.add") # {})
                   => {"title", "stage", "amount"} \subseteq DOMAIN fsmData[r.user]
             /\ (r.handler = "process_task_deadline" /\ CallsOf(r, "tasks.task.add") # {})
                   => {"title", "description", "priority"} \subseteq DOMAIN fsmData[r.user]]_vars

-----------------------------------------------------------------------------
(* Specification of the flows that start from an entity id: the deal, task *)
(* and lead edit flows, task reassignment and the lead status change, for  *)
(* one user who may or may not be linked, who may log out, and who may be  *)
(* in the middle of another of these flows when the command arrives        *)

T_EditTaskNoId == <<"E","d","i","t"," ","t","a","s","k"," ">>

T_EditDealNoId == <<"E","d","i","t"," ","d","e","a","l"," ">>

EntityTexts ==
    {T_Logout, T_EditDeal7, T_EditTask7, T_EditLead7, T_ReassignTask7,
     T_LeadStatus7, T_EditTaskNoId, T_EditDealNoId}

InitEntity == InitWith({"u1"}, {NoRecord, Linked}, 1)

NextEntity ==
    \E u \in {"u1"}, text \in EntityTexts :
        \/ cmd_logout(u, text)
        \/ cmd_edit_deal(u, text)
        \/ cmd_edit_task(u, text)
        \/ cmd_edit_lead(u, text)
        \/ cmd_reassign_task(u, text)
        \/ cmd_change_lead_status(u, text)

SpecEntity == InitEntity /\ [][NextEntity]_vars

\* the existence check of each command and the state its flow starts in
EntityFlows ==
    [cmd_edit_deal |-> [get |-> "crm.deal.get", first |-> "DealEditStates:waiting_field"],
     cmd_edit_task |-> [get |-> "tasks.task.get", first |-> "TaskEditStates:waiting_field"],
     cmd_edit_lead |-> [get |-> "crm.lead.get", first |-> "LeadEditStates:waiting_field"],
     cmd_reassign_task |->
        [get |-> "tasks.task.get", first |-> "TaskReassignStates:waiting_responsible"],
     cmd_change_lead_status |->
        [get |-> "crm.lead.get", first |-> "LeadStatusStates:waiting_status"]]

\* C38: a run of cmd_edit_deal, cmd_edit_task, cmd_edit_lead,
\* cmd_reassign_task or cmd_change_lead_status changes the state or the
\* collected fields of the session only when the user's credential was
\* fetched, is a linked one, and the existence request of the entity
\* succeeded; the only state such a run enters is the first state of its
\* flow.  So with an empty id, an unlinked user or a failed existence check
\* the state and the fields are exactly those before the command.
C38_EditStartsForExistingEntity ==
    [][runs' # <<>> =>
        LET r == runs'[Len(runs')]
            u == r.user
        IN  r.handler \in DOMAIN EntityFlows =>
              /\ (fsmState'[u] # fsmState[u] \/ fsmData'[u] # fsmData[u])
                    => /\ Strip(Replace(r.text, <<"7">>, <<>>)) # r.text
                       /\ ~Absent(stored[u])
                       /\ Succeeded(r, "store", "GET")
                       /\ Succeeded(r, "crm", EntityFlows[r.handler].get)
              /\ fsmState'[u] # fsmState[u]
                    => fsmState'[u] = EntityFlows[r.handler].first
              /\ \A v \in DOMAIN fsmState : v # u =>
                    fsmState'[v] = fsmState[v] /\ fsmData'[v] = fsmData[v]]_vars

\* the user was choosing a deal field, asked to edit a task that the portal
\* did not return, and is still choosing the field of deal 7
C38_Witness ==
    /\ runs # <<>>
    /\ LastRun.handler = "cmd_edit_task"
    /\ LastRun.replies = <<"not found">>
    /\ fsmState["u1"] = "DealEditStates:waiting_field"
    /\ Get(fsmData["u1"], "deal_id", NoneVal) = StrV(<<"7">>)
    /\ ~Truthy(Get(fsmData["u1"], "task_id", NoneVal))

\* the reassign flow was entered from the deal edit flow after the task was
\* found
C38_Entered ==
    /\ runs # <<>>
    /\ LastRun.handler = "cmd_reassign_task"
    /\ LastRun.from = "DealEditStates:waiting_field"
    /\ fsmState["u1"] = "TaskReassignStates:waiting_responsible"
    /\ Succeeded(LastRun, "crm", "tasks.task.get")

-----------------------------------------------------------------------------
(* The BackendAPIClient objects of the handlers, followed line by line.    *)
(* Every handler that reads, saves or deletes the webhook has the shape    *)
(*     backend_client = BackendAPIClient(message.from_user.id)             *)
(*     ... = await backend_client.get_bitrix_webhook()                     *)
(* (or save_bitrix_webhook / delete_bitrix_webhook); the client is never   *)
(* used in an `async with` block.  In this specification `clients` holds   *)
(* the credential-store clients and `active` the handlers that made them   *)

\* the handlers followed and the request each sends to the credential store
StoreHandlers ==
    [cmd_my_deals |-> "GET", process_lead_title |-> "GET", process_webhook |-> "POST",
     cmd_logout |-> "DELETE"]

\* the ways a request to the credential store ends: a 200/201/204 answer,
\* another status, a transport failure
StoreOutcomes == {"ok", "status", "down"}

InitStore == InitWith({"u1"}, {NoRecord, Linked}, 1)

\* backend_client = BackendAPIClient(user_id): session = None
backend_client_init(h) ==
    /\ Len(active) < MaxHandled
    /\ Cardinality({i \in 1..Len(active) : active[i].pc # "done"}) < MaxConcurrent
    /\ clients' = Append(clients, [session |-> "none"])
    /\ active' = Append(active, [handler |-> h, pc |-> "constructed",
                                 client |-> Len(clients) + 1, exit |-> "none"])
    /\ UNCHANGED <<botVars, apiVars>>

\* BackendAPIClient._make_request, called by get_bitrix_webhook,
\* save_bitrix_webhook or delete_bitrix_webhook: a session is created when
\* there is none; the answer is returned, or the exception raised is caught
\* by the calling method, which returns None or False
backend_make_request(i) ==
    /\ i <= Len(active)
    /\ active[i].pc = "constructed"
    /\ clients' = [clients EXCEPT ![active[i].client].session =
                       IF @ = "none" THEN "open" ELSE @]
    /\ \E o \in StoreOutcomes :
         active' = [active EXCEPT ![i].pc = "answered",
                                  ![i].exit = IF o = "ok" THEN "result" ELSE "caught"]
    /\ UNCHANGED <<botVars, apiVars>>

\* the rest of the handler up to its return: nothing in it calls
\* backend_client.session.close() or backend_client.__aexit__
handler_return(i) ==
    /\ i <= Len(active)
    /\ active[i].pc = "answered"
    /\ active' = [active EXCEPT ![i].pc = "done"]
    /\ UNCHANGED <<clients, botVars, apiVars>>

NextStore ==
    \/ \E h \in DOMAIN StoreHandlers : backend_client_init(h)
    \/ \E i \in 1..MaxHandled :
        \/ backend_make_request(i)
        \/ handler_return(i)

SpecStore == InitStore /\ [][NextStore]_vars

\* the credential-store sessions that are open
OpenStoreSessions == {c \in 1..Len(clients) : clients[c].session = "open"}

\* C39: the credential-store session of a handler that has returned is not
\* open, whether its request succeeded or failed, so no more sessions are
\* open than handlers are running
C39_StoreSessionsReleased ==
    /\ \A i \in 1..Len(active) :
          active[i].pc = "done" => clients[active[i].client].session # "open"
    /\ Cardinality(OpenStoreSessions)
          <= Cardinality({i \in 1..Len(active) : active[i].pc # "done"})

\* every handled message has left one open session behind
C39_SessionsGrow ==
    (\A i \in 1..Len(active) : active[i].pc = "done")
       => Cardinality(OpenStoreSessions) = Len(active)

-----------------------------------------------------------------------------
(* The credential backend: the telegram_user table and the views that read *)
(* and write it.  In this specification `stored` holds the rows of the     *)
(* table: [exists, encrypted, is_bitrix_connected, language]; `apiCall` is *)
(* the last request a view served and `apiResult` its response             *)

\* the Fernet key derived from SECRET_KEY now, and the one of an earlier
\* deployment
SecretKey == "key"

EarlierKey == "earlier key"

\* encrypted_webhook_url = None
NoCipher == [key |-> "", plain |-> <<>>]

\* get_fernet().encrypt(value.encode())
Encrypt(value) == [key |-> SecretKey, plain |-> value]

\* TelegramUser.webhook_url: None (here the empty text) without a stored
\* value or when decrypt raises InvalidToken, else the decrypted URL
webhook_url(row) ==
    IF row.encrypted = NoCipher THEN <<>>
    ELSE IF row.encrypted.key # SecretKey THEN <<>>
    ELSE row.encrypted.plain

\* the webhook_url setter: a truthy value is encrypted, any other clears
set_webhook_url(row, value) ==
    [row EXCEPT !.encrypted = IF value # <<>> THEN Encrypt(value) ELSE NoCipher]

\* a save that writes the row with the flag it has
save_as_is(row) == [row EXCEPT !.exists = TRUE]

\* TelegramUser.save: the flag is computed from the decrypted webhook, then
\* the row is written
save(row) ==
    [row EXCEPT !.exists = TRUE, !.is_bitrix_connected = (webhook_url(row) # <<>>)]

\* TelegramUser.disconnect_bitrix
disconnect_bitrix(row) ==
    save([set_webhook_url(row, <<>>) EXCEPT !.is_bitrix_connected = FALSE])

\* BitrixWebhookSerializer.create_or_update_webhook
create_or_update_webhook(row, validated) == save(set_webhook_url(row, validated))

\* BitrixWebhookSerializer.is_valid: the field is present and not blank, and
\* the stripped URL has a path rest/<user>/<token> on a bitrix24 host
webhook_is_valid(value) ==
    LET v == validate_full_webhook_url(value)
    IN  /\ Strip(value) # <<>>
        /\ Len(PathParts(v)) >= 3
        /\ PathParts(v)[1] = <<"r","e","s","t">>
        /\ Contains(UrlParse(v).netloc, <<".","b","i","t","r","i","x","2","4",".">>)

\* no row for the telegram id
NoRow == [exists |-> FALSE, encrypted |-> NoCipher, is_bitrix_connected |-> FALSE,
          language |-> "ru"]

\* a row saved with a webhook under the key `key`
LinkedRow(key, url) ==
    [exists |-> TRUE, encrypted |-> [key |-> key, plain |-> validate_full_webhook_url(url)],
     is_bitrix_connected |-> TRUE, language |-> "ru"]

\* the rows the table may hold at start: none, a linked one, and one that
\* was linked before SECRET_KEY was changed
BackendRows == {NoRow, LinkedRow(SecretKey, T_Hook), LinkedRow(EarlierKey, T_Hook)}

BackendUsers == {"u1", "u2"}

\* the bodies posted: two webhooks, a foreign URL, a blank field
PostedUrls == {T_Hook, T_Hook2, T_Foreign, <<" ">>}

\* the language values patched; the field holds at most 10 characters
Languages == {"ru", "en", "a language name"}

InitBackend == InitWith(BackendUsers, BackendRows, 1)

Answer(status, url, connected) ==
    [status |-> status, full_webhook_url |-> url, is_connected |-> connected]

\* BitrixTokenByTelegramView.get
view_get(u) ==
    /\ apiCall' = [op |-> "GET", user |-> u, saved |-> FALSE]
    /\ apiResult' = IF ~stored[u].exists \/ ~stored[u].is_bitrix_connected
                    THEN Answer(404, <<>>, FALSE)
                    ELSE Answer(200, webhook_url(stored[u]), stored[u].is_bitrix_connected)
    /\ UNCHANGED <<botVars, clients, active>>

\* BitrixTokenByTelegramView.post: a missing user is created first, then the
\* body is validated, then the webhook is stored
view_post(u, value) ==
    LET user == IF stored[u].exists THEN stored[u] ELSE save(NoRow)
        linked == create_or_update_webhook(user, validate_full_webhook_url(value))
    IN  /\ apiCall' = [op |-> "POST", user |-> u,
                       saved |-> (~stored[u].exists \/ webhook_is_valid(value))]
        /\ IF webhook_is_valid(value)
           THEN /\ stored' = [stored EXCEPT ![u] = linked]
                /\ apiResult' = Answer(200, <<>>, linked.is_bitrix_connected)
           ELSE /\ stored' = [stored EXCEPT ![u] = user]
                /\ apiResult' = Answer(400, <<>>, FALSE)
        /\ UNCHANGED <<fsmState, fsmData, keyboards, runs, window, tasks, inbox,
                       clients, active>>

\* BitrixTokenByTelegramView.delete
view_delete(u) ==
    /\ apiCall' = [op |-> "DELETE", user |-> u, saved |-> stored[u].exists]
    /\ IF stored[u].exists
       THEN /\ stored' = [stored EXCEPT ![u] = disconnect_bitrix(@)]
            /\ apiResult' = Answer(200, <<>>, FALSE)
       ELSE /\ UNCHANGED stored
            /\ apiResult' = Answer(404, <<>>, FALSE)
    /\ UNCHANGED <<fsmState, fsmData, keyboards, runs, window, tasks, inbox,
                   clients, active>>

\* update_user_settings_by_telegram: UserSettingsSerializer.save() ends in
\* TelegramUser.save()
update_user_settings_by_telegram(u, language) ==
    LET valid == language \in {"ru", "en"}
    IN  /\ apiCall' = [op |-> "PATCH", user |-> u, saved |-> (stored[u].exists /\ valid)]
        /\ IF ~stored[u].exists
           THEN /\ UNCHANGED stored
                /\ apiResult' = Answer(404, <<>>, FALSE)
           ELSE IF ~valid
           THEN /\ UNCHANGED stored
                /\ apiResult' = Answer(400, <<>>, FALSE)
           ELSE /\ stored' = [stored EXCEPT ![u] = save([@ EXCEPT !.language = language])]
                /\ apiResult' = Answer(200, <<>>, FALSE)
        /\ UNCHANGED <<fsmState, fsmData, keyboards, runs, window, tasks, inbox,
                       clients, active>>

NextBackend ==
    \/ \E u \in BackendUsers : view_get(u)
    \/ \E u \in BackendUsers, value \in PostedUrls : view_post(u, value)
    \/ \E u \in BackendUsers : view_delete(u)
    \/ \E u \in BackendUsers, language \in Languages :
          update_user_settings_by_telegram(u, language)

SpecBackend == InitBackend /\ [][NextBackend]_vars

\* the flag of a row agrees with its webhook
FlagMatches(row) == row.is_bitrix_connected <=> (webhook_url(row) # <<>>)

\* C40: a request that saves a user row (link, re-link, disconnect, settings
\* update, creation by POST) leaves is_bitrix_connected true exactly when
\* the row holds a webhook that decrypts to a non-empty URL, and rows change
\* by such saves only; GET answers 200 with the stored webhook only for a
\* row whose flag is true and 404 otherwise, and the GET that follows a
\* disconnect of the same user answers 404
C40_ConnectedFlagMatches ==
    /\ [](apiCall.op = "GET" =>
            LET row == stored[apiCall.user]
            IN  /\ apiResult.status \in {200, 404}
                /\ apiResult.status = 200 <=> (row.exists /\ row.is_bitrix_connected)
                /\ apiResult.full_webhook_url =
                      (IF apiResult.status = 200 THEN webhook_url(row) ELSE <<>>))
    /\ [][/\ apiCall'.saved => FlagMatches(stored'[apiCall'.user])
          /\ \A u \in BackendUsers :
                stored'[u] # stored[u] => (apiCall'.user = u /\ apiCall'.saved)
          /\ (/\ apiCall.op = "DELETE"
              /\ apiResult.status = 200
              /\ apiCall'.op = "GET"
              /\ apiCall'.user = apiCall.user)
                => apiResult'.status = 404]_vars

\* u1 was just linked by POST and its flag is set; the row of u2, linked
\* under the earlier key, has been saved since and its flag is cleared
C40_Witness ==
    /\ apiCall.op = "POST"
    /\ apiCall.user = "u1"
    /\ apiResult.status = 200
    /\ stored["u1"].is_bitrix_connected
    /\ webhook_url(stored["u1"]) = validate_full_webhook_url(T_Hook2)
    /\ stored["u2"].encrypted.key = EarlierKey
    /\ ~stored["u2"].is_bitrix_connected

\* a GET answered 404 for a user whose row exists with no webhook
C40_NotFoundAfterDisconnect ==
    /\ apiCall.op = "GET"
    /\ apiResult.status = 404
    /\ stored[apiCall.user].exists
    /\ stored[apiCall.user].encrypted = NoCipher

====
